---- MODULE Spec2Model ----
(***************************************************************************)
(* Scheduled-publication engine of wellcomeai/publicator:                  *)
(*   - the slot-time calculator   (services/content_plan_service.py)       *)
(*   - the content queue          (database/managers/content_queue_manager)*)
(*   - the scheduler loop and the review escalator                         *)
(*                                (services/auto_publish_service.py)       *)
(*   - the bot handlers that act on the queue (bot/handlers/...)           *)
(*                                                                         *)
(* Time.  An instant is an integer number of ticks since a Monday 00:00    *)
(* UTC.  A day has TicksPerDay ticks, a slot's "HH:MM" is a tick of the    *)
(* day, a week has DaysPerWeek days.  A time zone is a fixed offset in     *)
(* ticks (Europe/Moscow has no DST).  Between two ticks lie at least       *)
(* REVIEW_REMINDER_INTERVAL minutes; in_minute tells whether the clock     *)
(* still shows the HH:MM of the tick, and the two elapsed times the code   *)
(* compares (since last_processed_at, since last_reminder_at) are kept in  *)
(* minutes up to the threshold they are compared with.                     *)
(*                                                                         *)
(* Specifications.                                                         *)
(*   SpecCalc     calculate_schedule_times and get_next_slot_time on       *)
(*                bounded inputs                                           *)
(*   SpecQueue    the tenant's handlers on the queue and the settings      *)
(*   Spec         one run_auto_publisher loop and the review buttons, from *)
(*                the states the set-up handlers leave                     *)
(*   SpecFair     the loop and the clock alone, neither ever stopping      *)
(*   SpecOverlap  two loops at once                                        *)
(*   SpecAppend   the loop and a tenant who adds topics                    *)
(*   SpecStale    the loop and a tenant who deletes items                  *)
(*   SpecDelete   confirm_delete in two webhook tasks, await by await      *)
(*   SpecInsert   insert_after statement by statement, beside a reader     *)
(*   SpecPass     one pass of the loop over several tenants, tick by tick  *)
(*   SpecPassFair the same, the loop and the clock never stopping          *)
(*   SpecRestart  the loop, waking more than once in one minute            *)
(*   SpecReminders the review escalator over the items of several tenants, *)
(*                pass by pass, a minute or the reminder interval apart    *)
(***************************************************************************)
EXTENDS Integers, Sequences, FiniteSets, TLC

\* ------------------------------------------------------------------ bounds
TicksPerDay == 2
MaxSlots == 2
MaxCount == 3
MaxItems == 3
MaxNow == 2
MaxTenants == 2
max_queue_size == 2
posts_limit == 1

\* ------------------------------------------------------- program constants
DaysPerWeek == 7
\* minutes
REVIEW_REMINDER_INTERVAL == 30
MAX_REVIEW_REMINDERS == 3
MIN_PROCESS_INTERVAL == 5

VARIABLES
    schedule,   \* auto_publish_settings.schedule: [slots: Seq([day, time]), tz: offset]
    now,        \* the wall clock, in ticks (UTC)
    c_count,    \* calculate_schedule_times: the argument count
    c_out,      \* calculate_schedule_times: the returned list
    c_pc,       \* "input" before the call, "done" or "next" after it
    n_out,      \* get_next_slot_time: the returned instant (Null: None)
    q,          \* content_queue rows of the tenant, by id ("none": no such row)
    next_id,    \* content_queue.id SERIAL: the id of the next inserted row
    fsm,        \* the tenant's FSMContext: [state, insert_after]
    posts,      \* posts rows, by the id of the queue item they were made for
    in_minute,  \* the clock still shows the HH:MM with which the tick `now` began
    is_active,  \* auto_publish_settings.is_active
    moderation, \* auto_publish_settings.moderation: "review" or "auto"
    on_empty,   \* auto_publish_settings.on_empty: "pause" or "auto_generate"
    is_generating,  \* auto_publish_settings.is_generating
    lp,         \* minutes since auto_publish_settings.last_processed_at (Null: never)
    posts_used, \* users.posts_this_month
    processing_users,   \* the module-level set _processing_users
    loop_pc,    \* where each run_auto_publisher loop stands
    t_set,      \* the settings row a tick works on (read by get_active_settings)
    t_item,     \* the row get_next_ready returned to a tick
    t_times,    \* the slot times generate_content_plan took when a tick called it
    e_todo,     \* the rows get_all_review_items returned, not yet handled
    h_pc,       \* where each update-handler task of the tenant stands
    h_arg,      \* the value a handler task read before its last await
    seen,       \* the active positions, by id, the last get_queue returned
    prompted,   \* items for which a message with the review buttons was delivered
    sends,      \* per item: review reminders delivered for it
    failed_here,    \* a publish_post call has returned a failure in the tick `now'
    note,       \* per tick: what it found missing and which notice it sent the tenant
    acted_here, \* a tick has dispatched or handled an empty queue at the minute of `now'
    u_active,   \* the tenants whose auto_publish_settings.is_active is TRUE
    u_slot,     \* the tenants whose schedule has a slot at the minute the clock shows
    pass_pc,    \* where the pass of run_auto_publisher over the tenants stands
    pass_list,  \* active_settings: the rows get_active_settings returned, in order
    pass_i,     \* the index in pass_list of the tenant the for loop is at
    pass_done,  \* the tenants _process_user_auto_publish was called for in this pass
    pass_err,   \* the tenants whose tick raised in this pass
    missed,     \* the tenants whose slot minute ended before their tick began
    rv_rows,    \* per tenant: the content_queue row of the item it was last sent for review
    rv_pc,      \* where the pass of _send_review_reminders over all the tenants stands
    review_items,   \* the rows get_all_review_items returned, in order, not yet handled
    unvisited   \* the tenants whose row an error kept the for loop from reaching

calc_vars == <<c_count, c_out, c_pc, n_out>>
queue_vars == <<q, next_id, fsm, posts>>
time_vars == <<now, in_minute>>
flag_vars == <<is_active, moderation, on_empty, is_generating, lp>>
policy_vars == <<schedule, is_active, moderation, on_empty, is_generating, lp>>
loop_vars == <<processing_users, loop_pc, t_set, t_item, t_times, e_todo>>
step_vars == <<h_pc, h_arg, seen>>
ghost_vars == <<prompted, sends, failed_here, note, acted_here>>
pass_vars == <<u_active, u_slot, pass_pc, pass_list, pass_i, pass_done, pass_err, missed>>
rem_vars == <<rv_rows, rv_pc, review_items, unvisited>>
vars == <<schedule, now, c_count, c_out, c_pc, n_out, q, next_id, fsm, posts, in_minute,
          is_active, moderation, on_empty, is_generating, lp, posts_used,
          processing_users, loop_pc, t_set, t_item, t_times, e_todo, prompted,
          sends, failed_here, note, acted_here, h_pc, h_arg, seen, u_active, u_slot, pass_pc, pass_list,
          pass_i, pass_done, pass_err, missed, rv_rows, rv_pc, review_items, unvisited>>

\* ------------------------------------------------------------ time helpers
Min(a, b) == IF a <= b THEN a ELSE b
Max(a, b) == IF a >= b THEN a ELSE b

\* datetime.astimezone(tz): the local reading of a UTC instant
astimezone(t, tz) == t + tz
\* datetime.astimezone(timezone.utc): the UTC instant of a local reading
to_utc(l, tz) == l - tz
\* date(): the day number of a local reading; weekday(): Monday is 0
date(l) == l \div TicksPerDay
weekday(d) == d % DaysPerWeek
time_of_day(l) == l % TicksPerDay

Slots == [day : 0..(DaysPerWeek - 1), time : 0..(TicksPerDay - 1)]

InSeq(x, s) == \E i \in 1..Len(s) : s[i] = x

\* sorted(slots, key=lambda s: (s["day"], s["time"]))
SlotBefore(a, b) == a.day < b.day \/ (a.day = b.day /\ a.time < b.time)

RECURSIVE InsertSlot(_, _)
InsertSlot(s, x) ==
    IF s = <<>> THEN <<x>>
    ELSE IF SlotBefore(x, Head(s)) THEN <<x>> \o s
    ELSE <<Head(s)>> \o InsertSlot(Tail(s), x)

RECURSIVE sorted_slots(_)
sorted_slots(slots) ==
    IF slots = <<>> THEN <<>>
    ELSE InsertSlot(sorted_slots(SubSeq(slots, 1, Len(slots) - 1)), slots[Len(slots)])

\* list.sort() of instants
RECURSIVE InsertInt(_, _)
InsertInt(s, x) ==
    IF s = <<>> THEN <<x>>
    ELSE IF x < Head(s) THEN <<x>> \o s
    ELSE <<Head(s)>> \o InsertInt(Tail(s), x)

RECURSIVE sort(_)
sort(s) == IF s = <<>> THEN <<>> ELSE InsertInt(sort(Tail(s)), Head(s))

\* ---------------------------------------------- calculate_schedule_times
\* Mutant: `<` for `<=`, an occurrence equal to now is accepted.
SlotIsPast_Strict(slot_dt, now_local) == slot_dt < now_local

\* The comparison `slot_dt <= now_local` of the inner loop: TRUE skips the slot.
SlotIsPast(slot_dt, now_local) == slot_dt <= now_local

\* Mutant: the duplicate test never finds the instant.
AlreadyInResult_Never(slot_utc, result) == FALSE

\* `slot_utc not in result` is the negation of this test.
AlreadyInResult(slot_utc, result) == InSeq(slot_utc, result)

\* The inner `for slot in sorted_slots` of one while-iteration, from slot k on.
RECURSIVE ScanSlots(_, _, _, _, _, _, _)
ScanSlots(sorted, k, current_date, now_local, tz, count, result) ==
    IF k > Len(sorted) THEN result
    ELSE
        LET slot == sorted[k]
            days_ahead == (slot.day - weekday(current_date)) % DaysPerWeek
            slot_date == current_date + days_ahead
            slot_dt == slot_date * TicksPerDay + slot.time
            slot_utc == to_utc(slot_dt, tz)
        IN  IF SlotIsPast(slot_dt, now_local)
            THEN ScanSlots(sorted, k + 1, current_date, now_local, tz, count, result)
            ELSE
                LET r2 == IF AlreadyInResult(slot_utc, result) THEN result
                          ELSE Append(result, slot_utc)
                IN  IF Len(r2) >= count THEN r2
                    ELSE ScanSlots(sorted, k + 1, current_date, now_local, tz, count, r2)

\* Mutant: the safety limit is count itself.
MaxIterations_Tight(count) == count

\* max_iterations = count * 4
MaxIterations(count) == count * 4

\* The `while len(result) < count and iterations < max_iterations` loop.
RECURSIVE WeekLoop(_, _, _, _, _, _, _)
WeekLoop(sorted, current_date, now_local, tz, count, iterations, result) ==
    IF Len(result) < count /\ iterations < MaxIterations(count)
    THEN WeekLoop(sorted, current_date + DaysPerWeek, now_local, tz, count, iterations + 1,
                  ScanSlots(sorted, 1, current_date, now_local, tz, count, result))
    ELSE result

calculate_schedule_times(sched, count, start_from) ==
    LET now_local == astimezone(start_from, sched.tz)
    IN  IF sched.slots = <<>> THEN <<>>
        ELSE LET result == sort(WeekLoop(sorted_slots(sched.slots), date(now_local),
                                         now_local, sched.tz, count, 0, <<>>))
             IN  SubSeq(result, 1, Min(count, Len(result)))


\* ------------------------------------------------------------ content queue
Null == -1
Ids == 1..MaxItems

NoRow == [status |-> "none", position |-> 0, sched |-> Null, post |-> FALSE,
          rem |-> 0, lrem |-> Null]

\* INSERT INTO content_queue (..., post_id, position, scheduled_at, status):
\* review_reminders_sent defaults to 0, last_reminder_at to NULL
NewRow(position, sched, status) ==
    [status |-> status, position |-> position, sched |-> sched, post |-> TRUE,
     rem |-> 0, lrem |-> Null]

Exists(qq, i) == qq[i].status # "none"
\* status IN ('pending', 'ready')
IsActive(r) == r.status \in {"pending", "ready"}
ActiveIds(qq) == {i \in Ids : IsActive(qq[i])}
\* get_active_queue_count
get_active_queue_count(qq) == Cardinality(ActiveIds(qq))

SetMax(S) == CHOOSE x \in S : \A y \in S : y <= x

\* SELECT COALESCE(MAX(position), 0) FROM content_queue WHERE user_id = $1
MaxPosition(qq) ==
    IF \E i \in Ids : Exists(qq, i)
    THEN SetMax({qq[i].position : i \in {j \in Ids : Exists(qq, j)}})
    ELSE 0

\* ContentQueueManager.add_item
add_item(qq, id, sched, status) ==
    [qq EXCEPT ![id] = NewRow(MaxPosition(qq) + 1, sched, status)]

\* ContentQueueManager.add_items_batch: scheds[k] is the scheduled_at of the
\* k-th item; ids first_id, first_id + 1, ...; position = max_pos + i + 1
add_items_batch(qq, first_id, scheds) ==
    LET max_pos == MaxPosition(qq)
    IN  [i \in Ids |->
            IF i >= first_id /\ i < first_id + Len(scheds)
            THEN NewRow(max_pos + (i - first_id) + 1, scheds[i - first_id + 1], "ready")
            ELSE qq[i]]

\* Mutant: without ORDER BY the active rows come back in any order.
ActiveOrders_Unordered(qq) ==
    LET A == ActiveIds(qq)
        n == Cardinality(A)
    IN  {ord \in [1..n -> A] : \A i, j \in 1..n : i # j => ord[i] # ord[j]}

\* The orders in which `SELECT id ... WHERE status IN ('pending','ready')
\* ORDER BY position ASC` can return the active rows: rows of equal position
\* come in an order SQL does not fix.
ActiveOrders(qq) ==
    LET A == ActiveIds(qq)
        n == Cardinality(A)
    IN  {ord \in [1..n -> A] :
            /\ \A i, j \in 1..n : i # j => ord[i] # ord[j]
            /\ \A i, j \in 1..n : i < j => qq[ord[i]].position <= qq[ord[j]].position}

IndexOf(ord, id) == CHOOSE k \in 1..Len(ord) : ord[k] = id

\* ContentQueueManager.reorder_after_delete, the rows having come back as ord
reorder_after_delete(qq, ord) ==
    [i \in Ids |->
        IF InSeq(i, ord) THEN [qq[i] EXCEPT !.position = IndexOf(ord, i)] ELSE qq[i]]

\* DELETE FROM content_queue WHERE id = $1
DeleteRow(qq, id) == [qq EXCEPT ![id] = NoRow]

\* UPDATE content_queue SET position = position + 1
\* WHERE user_id = $1 AND position > $2 AND status IN ('pending', 'ready')
ShiftAfter(qq, after_position) ==
    [i \in Ids |->
        IF IsActive(qq[i]) /\ qq[i].position > after_position
        THEN [qq[i] EXCEPT !.position = @ + 1] ELSE qq[i]]

\* ContentQueueManager.insert_after
insert_after(qq, id, after_position, sched, status) ==
    [ShiftAfter(qq, after_position) EXCEPT ![id] = NewRow(after_position + 1, sched, status)]

\* Mutant: every active row takes the first timestamp.
recalculate_scheduled_at_First(qq, ord, sched, t) ==
    IF Len(ord) = 0 THEN qq
    ELSE LET times == calculate_schedule_times(sched, Len(ord), t)
         IN  [i \in Ids |->
                IF InSeq(i, ord)
                THEN [qq[i] EXCEPT !.sched = IF Len(times) >= 1 THEN times[1] ELSE Null]
                ELSE qq[i]]

\* ContentQueueManager.recalculate_scheduled_at, the rows having come back as ord
recalculate_scheduled_at(qq, ord, sched, t) ==
    IF Len(ord) = 0 THEN qq
    ELSE LET times == calculate_schedule_times(sched, Len(ord), t)
         IN  [i \in Ids |->
                IF InSeq(i, ord)
                THEN [qq[i] EXCEPT !.sched =
                        IF IndexOf(ord, i) <= Len(times) THEN times[IndexOf(ord, i)] ELSE Null]
                ELSE qq[i]]

\* The run_auto_publisher loops of the model.
Procs == {1, 2}

\* A tick has found nothing missing and has sent the tenant no notice.
NoNote == [found |-> "none", told |-> "none"]

QueueEmpty ==
    /\ q = [i \in Ids |-> NoRow]
    /\ next_id = 1
    /\ fsm = [state |-> "none", insert_after |-> Null]
    /\ posts = [i \in Ids |-> "none"]
    /\ prompted = {}
    /\ sends = [i \in Ids |-> 0]
    /\ failed_here = FALSE
    /\ note = [p \in Procs |-> NoNote]
    /\ acted_here = FALSE

\* ------------------------------------------------------- the publish policy
NoSettings == [schedule |-> [slots |-> <<>>, tz |-> 0], moderation |-> "review",
               on_empty |-> "pause", is_generating |-> FALSE, lp |-> Null]
NoItem == [id |-> 0, post |-> FALSE]

\* ----------------------------------------------------- get_next_slot_time
\* Mutant: a slot at the very instant of the call counts as the next one.
SameDayAhead_OrNow(slot_dt, now_local) == slot_dt >= now_local

\* `slot_dt > now_local` of the same-day branch (days_ahead == 0, week 0)
SameDayAhead(slot_dt, now_local) == slot_dt > now_local

\* The inner `for slot in sorted_slots` of one week_offset, from slot k on;
\* Null when the loop ends without a return.
RECURSIVE NextSlotScan(_, _, _, _, _)
NextSlotScan(sorted, k, week_offset, now_local, tz) ==
    IF k > Len(sorted) THEN Null
    ELSE
        LET slot == sorted[k]
            current_weekday == weekday(date(now_local))
            days_ahead == ((slot.day - current_weekday) % DaysPerWeek)
                          + (DaysPerWeek * week_offset)
        IN  IF days_ahead = 0 /\ week_offset = 0
            THEN LET slot_dt == date(now_local) * TicksPerDay + slot.time
                 IN  IF SameDayAhead(slot_dt, now_local) THEN to_utc(slot_dt, tz)
                     ELSE NextSlotScan(sorted, k + 1, week_offset, now_local, tz)
            ELSE LET slot_date == date(now_local) + days_ahead
                     slot_dt == slot_date * TicksPerDay + slot.time
                 IN  IF slot_dt > now_local THEN to_utc(slot_dt, tz)
                     ELSE NextSlotScan(sorted, k + 1, week_offset, now_local, tz)

\* `for week_offset in range(2)`: the current week first, then the next one.
get_next_slot_time(sched, t) ==
    IF sched.slots = <<>> THEN Null
    ELSE LET now_local == astimezone(t, sched.tz)
             sorted == sorted_slots(sched.slots)
             this_week == NextSlotScan(sorted, 1, 0, now_local, sched.tz)
         IN  IF this_week # Null THEN this_week
             ELSE NextSlotScan(sorted, 1, 1, now_local, sched.tz)

\* The update-handler tasks that can run at once for the tenant.
Tasks == {1, 2}

\* No handler task is under way and nothing has been read.
HandlersIdle ==
    /\ h_pc = [h \in Tasks |-> "idle"]
    /\ h_arg = [h \in Tasks |-> Null]
    /\ seen = <<>>

\* INSERT INTO auto_publish_settings: moderation 'review', on_empty 'pause'
PolicyOff ==
    /\ is_active = FALSE
    /\ moderation = "review"
    /\ on_empty = "pause"
    /\ is_generating = FALSE
    /\ lp = Null
    /\ posts_used = 0

\* The loops in Started are about to make their first pass; the others do
\* not run.
LoopsStart(Started) ==
    /\ processing_users = {}
    /\ loop_pc = [p \in Procs |-> IF p \in Started THEN "sleep" ELSE "off"]
    /\ t_set = [p \in Procs |-> NoSettings]
    /\ t_item = [p \in Procs |-> NoItem]
    /\ t_times = [p \in Procs |-> <<>>]
    /\ e_todo = [p \in Procs |-> {}]


\* ------------------------------------------------ handlers of the content plan
\* calculate_posts_count(schedule, days=7)
calculate_posts_count(sched) ==
    IF sched.slots = <<>> THEN 0 ELSE Max(2, Len(sched.slots))

RECURSIVE SeqOfSet(_)
SeqOfSet(S) ==
    IF S = {} THEN <<>>
    ELSE LET x == CHOOSE y \in S : TRUE IN <<x>> \o SeqOfSet(S \ {x})

\* on_times_done: slots = [{"day": d, "time": t} for d in days for t in times],
\* timezone "Europe/Moscow"
MoscowTz == 1
BuildSchedule(days, times) ==
    [slots |-> sorted_slots(SeqOfSet({[day |-> d, time |-> t] : d \in days, t \in times})),
     tz |-> MoscowTz]

\* The schedules the tenant picks in the setup dialogue.
ScheduleDays == {0, 1}
ScheduleChoices ==
    {BuildSchedule(D, Tm) : D \in (SUBSET ScheduleDays) \ {{}},
                            Tm \in (SUBSET (0..(TicksPerDay - 1))) \ {{}}}
\* schedule = {} of a tenant who has not been through the setup
NoSchedule == [slots |-> <<>>, tz |-> MoscowTz]

FsmClear == [state |-> "none", insert_after |-> Null]

\* add_topic_start (cplan:add_topic)
add_topic_start ==
    /\ get_active_queue_count(q) < max_queue_size
    /\ fsm' = [state |-> "adding_topic", insert_after |-> Null]
    /\ UNCHANGED <<q, next_id, posts, policy_vars, time_vars, posts_used, loop_vars,
                   ghost_vars, calc_vars, step_vars, pass_vars, rem_vars>>

\* insert_topic (cplan_insert:<queue_id>)
insert_topic(id) ==
    /\ Exists(q, id)
    /\ fsm' = [state |-> "adding_topic", insert_after |-> q[id].position]
    /\ UNCHANGED <<q, next_id, posts, policy_vars, time_vars, posts_used, loop_vars,
                   ghost_vars, calc_vars, step_vars, pass_vars, rem_vars>>

\* process_add_topic: the message handler of state adding_topic, the post
\* having been generated
process_add_topic ==
    /\ fsm.state = "adding_topic"
    /\ next_id <= MaxItems
    /\ LET times == calculate_schedule_times(schedule, get_active_queue_count(q) + 1, now)
           scheduled_at == IF schedule.slots # <<>> /\ times # <<>>
                           THEN times[Len(times)] ELSE Null
       IN  IF fsm.insert_after # Null
           THEN LET q1 == insert_after(q, next_id, fsm.insert_after, scheduled_at, "ready")
                IN  IF schedule.slots # <<>>
                    THEN \E ord \in ActiveOrders(q1) :
                            q' = recalculate_scheduled_at(q1, ord, schedule, now)
                    ELSE q' = q1
           ELSE q' = add_item(q, next_id, scheduled_at, "ready")
    /\ posts' = [posts EXCEPT ![next_id] = "draft"]
    /\ next_id' = next_id + 1
    /\ fsm' = FsmClear
    /\ UNCHANGED <<policy_vars, time_vars, posts_used, loop_vars, ghost_vars, calc_vars, step_vars, pass_vars, rem_vars>>

\* The queue after delete_item(id) and, when settings.get("schedule") is set,
\* recalculate_scheduled_at: the common part of confirm_delete and review_delete.
DeleteAndRecalculate(id, q2) ==
    \E ord1 \in ActiveOrders(DeleteRow(q, id)) :
        LET q1 == reorder_after_delete(DeleteRow(q, id), ord1)
        IN  IF schedule.slots # <<>>
            THEN \E ord2 \in ActiveOrders(q1) :
                    q2 = recalculate_scheduled_at(q1, ord2, schedule, now)
            ELSE q2 = q1

\* confirm_delete (cplan_confirm_del:<queue_id>)
confirm_delete(id) ==
    /\ Exists(q, id)
    /\ DeleteAndRecalculate(id, q')
    /\ fsm' = IF ActiveIds(q') = {} THEN fsm
              ELSE [fsm EXCEPT !.state = "browsing_queue"]
    /\ UNCHANGED <<next_id, posts, policy_vars, time_vars, posts_used, loop_vars,
                   ghost_vars, calc_vars, step_vars, pass_vars, rem_vars>>

\* The active rows of ContentQueueManager.get_queue: position by id.
ActivePositions(qq) == [i \in ActiveIds(qq) |-> qq[i].position]

\* A handler lists the queue (get_queue) and keeps what it was given.
get_queue(h) ==
    /\ h_pc[h] = "idle"
    /\ seen' = ActivePositions(q)
    /\ seen' # seen
    /\ UNCHANGED <<queue_vars, policy_vars, time_vars, posts_used, loop_vars, ghost_vars,
                   calc_vars, h_pc, h_arg, pass_vars, rem_vars>>

\* process_add_topic with insert_after in the FSM data, up to the end of
\* the first statement of ContentQueueManager.insert_after: the UPDATE that
\* shifts the active rows behind after_position.
insert_after_shift(h) ==
    /\ h_pc[h] = "idle"
    /\ fsm.state = "adding_topic"
    /\ fsm.insert_after # Null
    /\ next_id <= MaxItems
    /\ q' = ShiftAfter(q, fsm.insert_after)
    /\ h_pc' = [h_pc EXCEPT ![h] = "insert"]
    /\ h_arg' = [h_arg EXCEPT ![h] = fsm.insert_after]
    /\ UNCHANGED <<next_id, fsm, posts, policy_vars, time_vars, posts_used, loop_vars,
                   ghost_vars, calc_vars, seen, pass_vars, rem_vars>>

\* The second statement of insert_after, the INSERT at after_position + 1,
\* and the rest of process_add_topic: recalculate_scheduled_at, state.clear().
insert_after_insert(h) ==
    /\ h_pc[h] = "insert"
    /\ next_id <= MaxItems
    /\ LET times == calculate_schedule_times(schedule, get_active_queue_count(q) + 1, now)
           scheduled_at == IF schedule.slots # <<>> /\ times # <<>>
                           THEN times[Len(times)] ELSE Null
           q1 == [q EXCEPT ![next_id] = NewRow(h_arg[h] + 1, scheduled_at, "ready")]
       IN  IF schedule.slots # <<>>
           THEN \E ord \in ActiveOrders(q1) :
                    q' = recalculate_scheduled_at(q1, ord, schedule, now)
           ELSE q' = q1
    /\ posts' = [posts EXCEPT ![next_id] = "draft"]
    /\ next_id' = next_id + 1
    /\ fsm' = FsmClear
    /\ h_pc' = [h_pc EXCEPT ![h] = "idle"]
    /\ h_arg' = [h_arg EXCEPT ![h] = Null]
    /\ UNCHANGED <<policy_vars, time_vars, posts_used, loop_vars, ghost_vars, calc_vars,
                   seen, pass_vars, rem_vars>>

\* confirm_delete up to its first database answer: get_item found the row.
confirm_delete_get(h, id) ==
    /\ h_pc[h] = "idle"
    /\ Exists(q, id)
    /\ h_pc' = [h_pc EXCEPT ![h] = "delete"]
    /\ h_arg' = [h_arg EXCEPT ![h] = id]
    /\ UNCHANGED <<queue_vars, policy_vars, time_vars, posts_used, loop_vars, ghost_vars,
                   calc_vars, seen, pass_vars, rem_vars>>

\* Mutant: the remaining rows keep the positions they had.
delete_item_NoReorder(qq, id, ord) == DeleteRow(qq, id)

\* ContentQueueManager.delete_item, the rows of reorder_after_delete having
\* come back as ord: `if row:` skips the renumbering when no row was found.
delete_item(qq, id, ord) ==
    IF Exists(qq, id) THEN reorder_after_delete(DeleteRow(qq, id), ord)
    ELSE DeleteRow(qq, id)

\* confirm_delete from delete_item on, the row read before perhaps gone by
\* now: delete_item, recalculate_scheduled_at, the carousel.
confirm_delete_do(h) ==
    /\ h_pc[h] = "delete"
    /\ \E ord1 \in ActiveOrders(DeleteRow(q, h_arg[h])) :
        LET q1 == delete_item(q, h_arg[h], ord1)
        IN  IF schedule.slots # <<>>
            THEN \E ord2 \in ActiveOrders(q1) :
                    q' = recalculate_scheduled_at(q1, ord2, schedule, now)
            ELSE q' = q1
    /\ fsm' = IF ActiveIds(q') = {} THEN fsm
              ELSE [fsm EXCEPT !.state = "browsing_queue"]
    /\ h_pc' = [h_pc EXCEPT ![h] = "idle"]
    /\ h_arg' = [h_arg EXCEPT ![h] = Null]
    /\ UNCHANGED <<next_id, posts, policy_vars, time_vars, posts_used, loop_vars,
                   ghost_vars, calc_vars, seen, pass_vars, rem_vars>>

\* The scheduled_at of the posts generate_content_plan saves: the topics are
\* 1..m, succ the ones whose post was generated, times the slot times taken
\* at the start.
RECURSIVE BatchScheds(_, _, _, _)
BatchScheds(times, m, succ, i) ==
    IF i > m THEN <<>>
    ELSE (IF i \in succ THEN <<IF i <= Len(times) THEN times[i] ELSE Null>> ELSE <<>>)
         \o BatchScheds(times, m, succ, i + 1)

\* generate_content_plan: times are the slot times it took at its start; the
\* queue after add_items_batch
generate_content_plan(qq, first_id, sched, times, m, succ) ==
    IF calculate_posts_count(sched) = 0 \/ succ = {} THEN qq
    ELSE add_items_batch(qq, first_id, BatchScheds(times, m, succ, 1))

\* schedule_times = calculate_schedule_times(schedule, posts_count)
plan_schedule_times(sched, t) ==
    calculate_schedule_times(sched, calculate_posts_count(sched), t)

\* posts.create_post for the rows first_id .. last_id - 1
create_posts(ps, first_id, last_id) ==
    [i \in Ids |-> IF i >= first_id /\ i < last_id THEN "draft" ELSE ps[i]]

\* generate_plan_execute (cplan_gen:...): GPT returns m topics, the posts of
\* the topics in succ are generated
generate_plan_execute ==
    /\ next_id <= MaxItems
    /\ \E m \in 1..(MaxItems - next_id + 1) :
        \E succ \in (SUBSET (1..m)) \ {{}} :
            /\ q' = generate_content_plan(q, next_id, schedule,
                                          plan_schedule_times(schedule, now), m, succ)
            /\ next_id' = IF q' = q THEN next_id ELSE next_id + Cardinality(succ)
    /\ posts' = create_posts(posts, next_id, next_id')
    /\ fsm' = [fsm EXCEPT !.state = "browsing_queue"]
    /\ UNCHANGED <<policy_vars, time_vars, posts_used, loop_vars, ghost_vars, calc_vars, step_vars, pass_vars, rem_vars>>

\* on_times_done: update_schedule, recalculate_scheduled_at, state.clear()
on_times_done ==
    /\ \E s \in ScheduleChoices :
        /\ schedule' = s
        /\ \E ord \in ActiveOrders(q) : q' = recalculate_scheduled_at(q, ord, s, now)
    /\ fsm' = FsmClear
    /\ UNCHANGED <<next_id, posts, flag_vars, time_vars, posts_used, loop_vars, ghost_vars,
                   calc_vars, step_vars, pass_vars, rem_vars>>

\* ----------------------------------------------------------------- the clock
\* An elapsed time in minutes, d minutes later; the model keeps it up to cap.
Aged(a, d, cap) == IF a = Null THEN Null ELSE Min(a + d, cap)

AgedRows(qq, d) ==
    [i \in Ids |-> [qq[i] EXCEPT !.lrem = Aged(@, d, REVIEW_REMINDER_INTERVAL)]]
AgedSettings(ts, d) ==
    [p \in DOMAIN ts |-> [ts[p] EXCEPT !.lp = Aged(@, d, MIN_PROCESS_INTERVAL)]]

\* asyncio.sleep(CHECK_INTERVAL) is over once the clock has moved.
Woken(pc) == [p \in DOMAIN pc |-> IF pc[p] = "sleeping" THEN "sleep" ELSE pc[p]]

\* A pass of a loop takes no time on the model's clock, except for the wait
\* for the content plan: the clock moves while the loops sleep or generate.
LoopsWait == \A p \in Procs : loop_pc[p] \in {"off", "sleeping", "generating"}

\* REVIEW_REMINDER_INTERVAL minutes pass within the tick: the clock no longer
\* shows the tick's HH:MM.
AdvanceClock ==
    /\ LoopsWait
    /\ in_minute' = FALSE
    /\ lp' = Aged(lp, REVIEW_REMINDER_INTERVAL, MIN_PROCESS_INTERVAL)
    /\ q' = AgedRows(q, REVIEW_REMINDER_INTERVAL)
    /\ t_set' = AgedSettings(t_set, REVIEW_REMINDER_INTERVAL)
    /\ loop_pc' = Woken(loop_pc)
    /\ \/ in_minute
       \/ lp' # lp
       \/ q' # q
       \/ t_set' # t_set
       \/ loop_pc' # loop_pc
    /\ UNCHANGED <<now, schedule, is_active, moderation, on_empty, is_generating,
                   next_id, fsm, posts, posts_used, processing_users, t_item,
                   t_times, e_todo, ghost_vars, calc_vars, step_vars, pass_vars, rem_vars>>

\* The clock reaches the next tick; ticks are at least REVIEW_REMINDER_INTERVAL
\* minutes apart.
NextTick ==
    /\ now < MaxNow
    /\ LoopsWait
    /\ now' = now + 1
    /\ in_minute' = TRUE
    /\ lp' = Aged(lp, REVIEW_REMINDER_INTERVAL, MIN_PROCESS_INTERVAL)
    /\ q' = AgedRows(q, REVIEW_REMINDER_INTERVAL)
    /\ t_set' = AgedSettings(t_set, REVIEW_REMINDER_INTERVAL)
    /\ loop_pc' = Woken(loop_pc)
    /\ failed_here' = FALSE
    /\ acted_here' = FALSE
    /\ UNCHANGED <<schedule, is_active, moderation, on_empty, is_generating,
                   next_id, fsm, posts, posts_used, processing_users, t_item,
                   t_times, e_todo, prompted, sends, note, calc_vars, step_vars, pass_vars, rem_vars>>

\* ------------------------------------------------------------ the scheduler
Tenant == "u"

\* Mutant: the slot check compares the time of day and not the weekday.
is_slot_now_AnyDay(sched) ==
    LET now_local == astimezone(now, sched.tz)
    IN  /\ sched.slots # <<>>
        /\ in_minute
        /\ \E k \in 1..Len(sched.slots) :
              sched.slots[k].time = time_of_day(now_local)

\* _is_slot_now(schedule)
is_slot_now(sched) ==
    LET now_local == astimezone(now, sched.tz)
    IN  /\ sched.slots # <<>>
        /\ in_minute
        /\ \E k \in 1..Len(sched.slots) :
              /\ sched.slots[k].day = weekday(date(now_local))
              /\ sched.slots[k].time = time_of_day(now_local)

\* ContentQueueManager.update_status
update_status(qq, id, status) ==
    IF Exists(qq, id) THEN [qq EXCEPT ![id].status = status] ELSE qq

\* ContentQueueManager.set_review
set_review(qq, id) ==
    IF Exists(qq, id) THEN [qq EXCEPT ![id].status = "review", ![id].lrem = 0] ELSE qq

\* ContentQueueManager.increment_reminder
increment_reminder(qq, id) ==
    IF Exists(qq, id) THEN [qq EXCEPT ![id].rem = @ + 1, ![id].lrem = 0] ELSE qq

\* Mutant: the review gate finds no row.
get_items_for_review_None(qq) == {}

\* ContentQueueManager.get_items_for_review
get_items_for_review(qq) == {i \in Ids : qq[i].status = "review"}

\* WHERE status = 'ready' AND scheduled_at <= NOW()
ReadyDue(qq) ==
    {i \in Ids : qq[i].status = "ready" /\ qq[i].sched # Null /\ qq[i].sched <= now}

\* ContentQueueManager.get_next_ready: the rows ORDER BY position LIMIT 1 can
\* return
get_next_ready(qq) ==
    {i \in ReadyDue(qq) : \A j \in ReadyDue(qq) : qq[i].position <= qq[j].position}

\* PostManager.mark_published
mark_published(ps, id) == IF ps[id] # "none" THEN [ps EXCEPT ![id] = "published"] ELSE ps

\* Mutant: the post limit is never reached.
can_post_Always == TRUE

\* UserManager.check_post_limit(...)["can_post"]
can_post == posts_used < posts_limit

Goto(p, pc) == loop_pc' = [loop_pc EXCEPT ![p] = pc]

\* run_auto_publisher wakes up; _process_auto_publish reads get_active_settings
LoopWake(p) ==
    /\ loop_pc[p] = "sleep"
    /\ IF is_active
       THEN /\ t_set' = [t_set EXCEPT ![p] =
                    [schedule |-> schedule, moderation |-> moderation,
                     on_empty |-> on_empty, is_generating |-> is_generating, lp |-> lp]]
            /\ Goto(p, "guard")
       ELSE /\ UNCHANGED t_set
            /\ Goto(p, "esc")
    /\ UNCHANGED <<policy_vars, time_vars, queue_vars, posts_used, processing_users,
                   t_item, t_times, e_todo, ghost_vars, calc_vars, step_vars, pass_vars, rem_vars>>

\* Mutant: the guard does not look at _processing_users.
AlreadyProcessing_Never == FALSE

\* user_id in _processing_users
AlreadyProcessing == Tenant \in processing_users

\* a tick is too soon after last_processed_at
TooSoon(last_processed) ==
    last_processed # Null /\ last_processed < MIN_PROCESS_INTERVAL

\* _process_user_auto_publish up to its first await: the concurrency guard,
\* the slot check and the throttle
TickEnter(p) ==
    /\ loop_pc[p] = "guard"
    /\ IF AlreadyProcessing
       THEN /\ Goto(p, "esc")
            /\ UNCHANGED processing_users
       ELSE IF ~is_slot_now(t_set[p].schedule) \/ TooSoon(t_set[p].lp)
            THEN /\ Goto(p, "esc")
                 /\ processing_users' = processing_users \ {Tenant}
            ELSE /\ Goto(p, "gate")
                 /\ processing_users' = processing_users \cup {Tenant}
    /\ UNCHANGED <<policy_vars, time_vars, queue_vars, posts_used, t_set, t_item,
                   t_times, e_todo, ghost_vars, calc_vars, step_vars, pass_vars, rem_vars>>

\* steps 4 and 5 of the tick: the review gate and is_generating
TickGate(p) ==
    /\ loop_pc[p] = "gate"
    /\ IF get_items_for_review(q) # {} \/ t_set[p].is_generating
       THEN /\ Goto(p, "esc")
            /\ processing_users' = processing_users \ {Tenant}
       ELSE /\ Goto(p, "fetch")
            /\ UNCHANGED processing_users
    /\ UNCHANGED <<policy_vars, time_vars, queue_vars, posts_used, t_set, t_item,
                   t_times, e_todo, ghost_vars, calc_vars, step_vars, pass_vars, rem_vars>>

\* step 6 of the tick: get_next_ready
TickFetch(p) ==
    /\ loop_pc[p] = "fetch"
    /\ IF get_next_ready(q) = {}
       THEN /\ Goto(p, "empty")
            /\ UNCHANGED t_item
       ELSE \E i \in get_next_ready(q) :
            /\ t_item' = [t_item EXCEPT ![p] = [id |-> i, post |-> q[i].post]]
            /\ Goto(p, IF t_set[p].moderation = "auto" THEN "publish" ELSE "review")
    /\ acted_here' = TRUE
    /\ UNCHANGED <<policy_vars, time_vars, queue_vars, posts_used, processing_users,
                   t_set, t_times, e_todo, prompted, sends, failed_here, note,
                   calc_vars, step_vars, pass_vars, rem_vars>>

\* Mutant: the UPDATE of is_active changes no row.
set_active_NoRow(active) == is_active

\* AutoPublishManager.set_active: the value of is_active after the UPDATE
set_active(active) == active

\* Mutant: the flag, once set, stays set.
set_generating_Sticky(generating) == generating \/ is_generating

\* AutoPublishManager.set_generating: the value of is_generating after the UPDATE
set_generating(generating) == generating

\* The tick p notes what it found missing and the notice it sent the tenant.
Note(p, found, told) == note' = [note EXCEPT ![p] = [found |-> found, told |-> told]]

\* _handle_empty_queue, and _auto_generate_batch up to set_generating(True)
TickEmpty(p) ==
    /\ loop_pc[p] = "empty"
    /\ IF t_set[p].on_empty = "pause"
       THEN /\ is_active' = set_active(FALSE)
            /\ Note(p, "none", "queue_empty")
            /\ Goto(p, "mark")
            /\ UNCHANGED <<is_generating, t_times>>
       ELSE IF t_set[p].is_generating
       THEN /\ Goto(p, "mark")
            /\ UNCHANGED <<is_active, is_generating, t_times, note>>
       ELSE \E agent \in BOOLEAN, has_tokens \in BOOLEAN :
            IF ~agent
            THEN /\ Note(p, "no_agent", "none")
                 /\ Goto(p, "mark")
                 /\ UNCHANGED <<is_active, is_generating, t_times>>
            ELSE IF ~has_tokens
            THEN /\ is_active' = set_active(FALSE)
                 /\ Note(p, "no_tokens", "no_tokens")
                 /\ Goto(p, "mark")
                 /\ UNCHANGED <<is_generating, t_times>>
            ELSE /\ is_generating' = set_generating(TRUE)
                 /\ t_times' = [t_times EXCEPT ![p] =
                                    plan_schedule_times(t_set[p].schedule, now)]
                 /\ Goto(p, "generating")
                 /\ UNCHANGED <<is_active, note>>
    /\ UNCHANGED <<schedule, moderation, on_empty, lp, time_vars, queue_vars, posts_used,
                   processing_users, t_set, t_item, e_todo, prompted, sends, failed_here,
                   acted_here, calc_vars, step_vars, pass_vars, rem_vars>>

\* Mutant: after the content plan the tick looks for a ready item again.
TickGenerated_Refetches(p) ==
    /\ loop_pc[p] = "generating"
    /\ \E m \in 0..(MaxItems - next_id + 1) :
        \E succ \in SUBSET (1..m) :
            /\ q' = generate_content_plan(q, next_id, t_set[p].schedule, t_times[p], m, succ)
            /\ next_id' = IF q' = q THEN next_id ELSE next_id + Cardinality(succ)
            /\ Note(p, IF succ = {} \/ calculate_posts_count(t_set[p].schedule) = 0
                       THEN "nothing" ELSE "saved", "plan_created")
    /\ posts' = create_posts(posts, next_id, next_id')
    /\ is_generating' = set_generating(FALSE)
    /\ t_times' = [t_times EXCEPT ![p] = <<>>]
    /\ Goto(p, "fetch")
    /\ UNCHANGED <<schedule, is_active, moderation, on_empty, lp, time_vars, fsm, posts_used,
                   processing_users, t_set, t_item, e_todo, prompted, sends, failed_here,
                   acted_here, calc_vars, step_vars, pass_vars, rem_vars>>

\* _auto_generate_batch: generate_content_plan returns, with the items it
\* saved or with nothing (no topics, or no post generated), the tenant is
\* told the plan is there, and the finally clause runs
TickGenerated(p) ==
    /\ loop_pc[p] = "generating"
    /\ \E m \in 0..(MaxItems - next_id + 1) :
        \E succ \in SUBSET (1..m) :
            /\ q' = generate_content_plan(q, next_id, t_set[p].schedule, t_times[p], m, succ)
            /\ next_id' = IF q' = q THEN next_id ELSE next_id + Cardinality(succ)
            /\ Note(p, IF succ = {} \/ calculate_posts_count(t_set[p].schedule) = 0
                       THEN "nothing" ELSE "saved", "plan_created")
    /\ posts' = create_posts(posts, next_id, next_id')
    /\ is_generating' = set_generating(FALSE)
    /\ t_times' = [t_times EXCEPT ![p] = <<>>]
    /\ Goto(p, "mark")
    /\ UNCHANGED <<schedule, is_active, moderation, on_empty, lp, time_vars, fsm, posts_used,
                   processing_users, t_set, t_item, e_todo, prompted, sends, failed_here,
                   acted_here, calc_vars, step_vars, pass_vars, rem_vars>>

\* Mutant: an error of the content plan switches the policy off.
TickGenerationRaised_Pauses(p) ==
    /\ loop_pc[p] = "generating"
    /\ is_active' = FALSE
    /\ is_generating' = set_generating(FALSE)
    /\ t_times' = [t_times EXCEPT ![p] = <<>>]
    /\ Note(p, "gen_raised", "none")
    /\ Goto(p, "mark")
    /\ UNCHANGED <<schedule, moderation, on_empty, lp, time_vars, queue_vars,
                   posts_used, processing_users, t_set, t_item, e_todo, prompted, sends,
                   failed_here, acted_here, calc_vars, step_vars, pass_vars, rem_vars>>

\* _auto_generate_batch: generate_content_plan raises before add_items_batch
\* (a call of the generation interface failed); the except clause logs the
\* error and the finally clause runs
TickGenerationRaised(p) ==
    /\ loop_pc[p] = "generating"
    /\ is_generating' = set_generating(FALSE)
    /\ t_times' = [t_times EXCEPT ![p] = <<>>]
    /\ Note(p, "gen_raised", "none")
    /\ Goto(p, "mark")
    /\ UNCHANGED <<schedule, is_active, moderation, on_empty, lp, time_vars, queue_vars,
                   posts_used, processing_users, t_set, t_item, e_todo, prompted, sends,
                   failed_here, acted_here, calc_vars, step_vars, pass_vars, rem_vars>>

\* _send_for_review
TickSendForReview(p) ==
    LET id == t_item[p].id
    IN  /\ loop_pc[p] = "review"
        /\ q' = set_review(q, id)
        /\ IF t_item[p].post /\ posts[id] # "none"
           THEN \E delivered \in BOOLEAN :
                    prompted' = IF delivered THEN prompted \cup {id} ELSE prompted
           ELSE UNCHANGED prompted
        /\ Goto(p, "mark")
        /\ UNCHANGED <<policy_vars, time_vars, next_id, fsm, posts, posts_used,
                       processing_users, t_set, t_item, t_times, e_todo, sends,
                       failed_here, note, acted_here, calc_vars, step_vars, pass_vars, rem_vars>>

\* What the call of publish_post can do: return success, return a failure,
\* or raise (the call passes watermark=, which the function does not take).
PublishOutcomes == {"record", "failed", "raised"}

\* _publish_queue_item up to the end of the call of publish_post
TickPublish(p) ==
    LET id == t_item[p].id
    IN  /\ loop_pc[p] = "publish"
        /\ IF ~t_item[p].post \/ posts[id] = "none"
           THEN /\ q' = update_status(q, id, "skipped")
                /\ Note(p, "no_post", "none")
                /\ Goto(p, "mark")
                /\ UNCHANGED <<is_active, failed_here>>
           ELSE \E channel \in BOOLEAN, outcome \in PublishOutcomes :
                IF ~channel
                THEN /\ Note(p, "no_channel", "none")
                     /\ Goto(p, "mark")
                     /\ UNCHANGED <<q, is_active, failed_here>>
                ELSE IF ~can_post
                THEN /\ is_active' = set_active(FALSE)
                     /\ Note(p, "post_limit", "post_limit")
                     /\ Goto(p, "mark")
                     /\ UNCHANGED <<q, failed_here>>
                ELSE /\ Goto(p, outcome)
                     /\ failed_here' = (failed_here \/ outcome = "failed")
                     /\ UNCHANGED <<q, is_active, note>>
        /\ UNCHANGED <<schedule, moderation, on_empty, is_generating, lp, time_vars,
                       next_id, fsm, posts, posts_used, processing_users, t_set, t_item,
                       t_times, e_todo, prompted, sends, acted_here, calc_vars, step_vars,
                       pass_vars, rem_vars>>

\* Mutant: an exception leaves the tick without the finally clause.
TickRaised_KeepsMarker(p) ==
    /\ loop_pc[p] = "raised"
    /\ Goto(p, "esc")
    /\ note' = [note EXCEPT ![p] = NoNote]
    /\ UNCHANGED <<policy_vars, time_vars, queue_vars, posts_used, processing_users,
                   t_set, t_item, t_times, e_todo, prompted, sends, failed_here,
                   acted_here, calc_vars, step_vars, pass_vars, rem_vars>>

\* An exception leaves _process_user_auto_publish: the finally clause runs,
\* _process_auto_publish logs the error, update_last_processed is not reached.
TickRaised(p) ==
    /\ loop_pc[p] = "raised"
    /\ processing_users' = processing_users \ {Tenant}
    /\ Goto(p, "esc")
    /\ note' = [note EXCEPT ![p] = NoNote]
    /\ UNCHANGED <<policy_vars, time_vars, queue_vars, posts_used, t_set, t_item,
                   t_times, e_todo, prompted, sends, failed_here, acted_here,
                   calc_vars, step_vars, pass_vars, rem_vars>>

\* Mutant: a failed publication takes the item out of the queue.
TickPublishFailed_Skips(p) ==
    /\ loop_pc[p] = "failed"
    /\ q' = update_status(q, t_item[p].id, "skipped")
    /\ Goto(p, "mark")
    /\ UNCHANGED <<policy_vars, time_vars, next_id, fsm, posts, posts_used,
                   processing_users, t_set, t_item, t_times, e_todo, ghost_vars,
                   calc_vars, step_vars, pass_vars, rem_vars>>

\* _publish_queue_item after a failed publish_post: the tenant is told
TickPublishFailed(p) ==
    /\ loop_pc[p] = "failed"
    /\ Goto(p, "mark")
    /\ UNCHANGED <<policy_vars, time_vars, queue_vars, posts_used, processing_users,
                   t_set, t_item, t_times, e_todo, ghost_vars, calc_vars, step_vars, pass_vars, rem_vars>>

\* Mutant: the usage counter is advanced twice for one publication.
TickRecord_CountsTwice(p) ==
    LET id == t_item[p].id
    IN  /\ loop_pc[p] = "record"
        /\ q' = update_status(q, id, "published")
        /\ posts' = mark_published(posts, id)
        /\ posts_used' = posts_used + 2
        /\ Goto(p, "mark")
        /\ UNCHANGED <<policy_vars, time_vars, next_id, fsm, processing_users, t_set,
                       t_item, t_times, e_todo, ghost_vars, calc_vars, step_vars, pass_vars, rem_vars>>

\* _publish_queue_item after a successful publish_post
TickRecord(p) ==
    LET id == t_item[p].id
    IN  /\ loop_pc[p] = "record"
        /\ q' = update_status(q, id, "published")
        /\ posts' = mark_published(posts, id)
        /\ posts_used' = posts_used + 1
        /\ Goto(p, "mark")
        /\ UNCHANGED <<policy_vars, time_vars, next_id, fsm, processing_users, t_set,
                       t_item, t_times, e_todo, ghost_vars, calc_vars, step_vars, pass_vars, rem_vars>>

\* update_last_processed and the finally clause of the tick
TickMark(p) ==
    /\ loop_pc[p] = "mark"
    /\ lp' = 0
    /\ processing_users' = processing_users \ {Tenant}
    /\ Goto(p, "esc")
    /\ note' = [note EXCEPT ![p] = NoNote]
    /\ UNCHANGED <<schedule, is_active, moderation, on_empty, is_generating, time_vars,
                   queue_vars, posts_used, t_set, t_item, t_times, e_todo, prompted,
                   sends, failed_here, acted_here, calc_vars, step_vars, pass_vars, rem_vars>>

\* _send_review_reminders: get_all_review_items
EscSnapshot(p) ==
    /\ loop_pc[p] = "esc"
    /\ e_todo' = [e_todo EXCEPT ![p] =
            {[id |-> i, rem |-> q[i].rem, lrem |-> q[i].lrem, post |-> q[i].post] :
                i \in {j \in Ids : q[j].status = "review"}}]
    /\ Goto(p, "esc_items")
    /\ UNCHANGED <<policy_vars, time_vars, queue_vars, posts_used, processing_users,
                   t_set, t_item, t_times, ghost_vars, calc_vars, step_vars, pass_vars, rem_vars>>

\* Mutant: the auto-skip waits for one reminder more.
SkipDue_Late(reminders_sent) == reminders_sent > MAX_REVIEW_REMINDERS

\* reminders_sent >= MAX_REVIEW_REMINDERS
SkipDue(reminders_sent) == reminders_sent >= MAX_REVIEW_REMINDERS

\* _send_review_reminders: one round of the loop over review_items
EscItem(p) ==
    /\ loop_pc[p] = "esc_items"
    /\ \E r \in e_todo[p] :
        /\ e_todo' = [e_todo EXCEPT ![p] = @ \ {r}]
        /\ IF SkipDue(r.rem)
           THEN /\ q' = update_status(q, r.id, "skipped")
                /\ UNCHANGED <<prompted, sends>>
           ELSE IF \/ r.lrem = Null
                   \/ r.lrem < REVIEW_REMINDER_INTERVAL
                   \/ ~r.post
                   \/ posts[r.id] = "none"
           THEN UNCHANGED <<q, prompted, sends>>
           ELSE \E delivered \in BOOLEAN :
                IF delivered
                THEN /\ q' = increment_reminder(q, r.id)
                     /\ prompted' = prompted \cup {r.id}
                     /\ sends' = [sends EXCEPT ![r.id] = @ + 1]
                ELSE UNCHANGED <<q, prompted, sends>>
    /\ UNCHANGED <<policy_vars, time_vars, next_id, fsm, posts, posts_used,
                   processing_users, loop_pc, t_set, t_item, t_times, failed_here,
                   note, acted_here, calc_vars, step_vars, pass_vars, rem_vars>>

\* the pass is over: asyncio.sleep(CHECK_INTERVAL)
LoopSleep(p) ==
    /\ loop_pc[p] = "esc_items"
    /\ e_todo[p] = {}
    /\ Goto(p, "sleeping")
    /\ UNCHANGED <<policy_vars, time_vars, queue_vars, posts_used, processing_users,
                   t_set, t_item, t_times, e_todo, ghost_vars, calc_vars, step_vars, pass_vars, rem_vars>>

\* ------------------------------------------------------- the tenant's buttons
\* toggle_auto_publish (autopub:toggle), the tenant having a channel and an agent
toggle_auto_publish ==
    /\ IF is_active
       THEN is_active' = FALSE
       ELSE /\ schedule.slots # <<>>
            /\ \/ \E i \in Ids : q[i].status = "ready"
               \/ on_empty = "auto_generate"
            /\ is_active' = TRUE
    /\ UNCHANGED <<schedule, moderation, on_empty, is_generating, lp, time_vars,
                   queue_vars, posts_used, loop_vars, ghost_vars, calc_vars, step_vars, pass_vars, rem_vars>>

\* toggle_setting (autopub_set:moderation)
toggle_moderation ==
    /\ moderation' = IF moderation = "review" THEN "auto" ELSE "review"
    /\ UNCHANGED <<schedule, is_active, on_empty, is_generating, lp, time_vars,
                   queue_vars, posts_used, loop_vars, ghost_vars, calc_vars, step_vars, pass_vars, rem_vars>>

\* toggle_setting (autopub_set:on_empty)
toggle_on_empty ==
    /\ on_empty' = IF on_empty = "pause" THEN "auto_generate" ELSE "pause"
    /\ UNCHANGED <<schedule, is_active, moderation, is_generating, lp, time_vars,
                   queue_vars, posts_used, loop_vars, ghost_vars, calc_vars, step_vars, pass_vars, rem_vars>>

\* review_publish (review_publish:<queue_id>), the tenant having a channel and
\* publish_post succeeding
review_publish(id) ==
    /\ id \in prompted
    /\ Exists(q, id)
    /\ q[id].post
    /\ posts[id] # "none"
    /\ can_post
    /\ q' = update_status(q, id, "published")
    /\ posts' = mark_published(posts, id)
    /\ posts_used' = posts_used + 1
    /\ UNCHANGED <<policy_vars, time_vars, next_id, fsm, loop_vars, ghost_vars, calc_vars, step_vars, pass_vars, rem_vars>>

\* review_skip (review_skip:<queue_id>)
review_skip(id) ==
    /\ id \in prompted
    /\ Exists(q, id)
    /\ q' = update_status(q, id, "skipped")
    /\ UNCHANGED <<policy_vars, time_vars, next_id, fsm, posts, posts_used, loop_vars,
                   ghost_vars, calc_vars, step_vars, pass_vars, rem_vars>>

\* review_delete (review_delete:<queue_id>)
review_delete(id) ==
    /\ id \in prompted
    /\ Exists(q, id)
    /\ DeleteAndRecalculate(id, q')
    /\ UNCHANGED <<policy_vars, time_vars, next_id, fsm, posts, posts_used, loop_vars,
                   ghost_vars, calc_vars, step_vars, pass_vars, rem_vars>>

\* The service is restarted while the loop sleeps: _processing_users is
\* empty again and run_auto_publisher begins a pass at once, the clock still
\* showing the minute of the pass before.
Restart ==
    /\ \A p \in Procs : loop_pc[p] \in {"off", "sleeping"}
    /\ \E p \in Procs : loop_pc[p] = "sleeping"
    /\ loop_pc' = Woken(loop_pc)
    /\ processing_users' = {}
    /\ UNCHANGED <<policy_vars, time_vars, queue_vars, posts_used, t_set, t_item,
                   t_times, e_todo, ghost_vars, calc_vars, step_vars, pass_vars, rem_vars>>

\* One step of the run_auto_publisher loop p.
Loop(p) ==
    \/ LoopWake(p)
    \/ TickEnter(p)
    \/ TickGate(p)
    \/ TickFetch(p)
    \/ TickEmpty(p)
    \/ TickGenerated(p)
    \/ TickGenerationRaised(p)
    \/ TickSendForReview(p)
    \/ TickPublish(p)
    \/ TickPublishFailed(p)
    \/ TickRaised(p)
    \/ TickRecord(p)
    \/ TickMark(p)
    \/ EscSnapshot(p)
    \/ EscItem(p)
    \/ LoopSleep(p)

\* ------------------------------------------- one pass over all the tenants
\* The tenants with a row in auto_publish_settings.
Tenants == 1..MaxTenants

\* The orders in which a SELECT without ORDER BY can return the rows S.
RECURSIVE RowOrders(_)
RowOrders(S) ==
    IF S = {} THEN {<<>>}
    ELSE UNION {{<<t>> \o rest : rest \in RowOrders(S \ {t})} : t \in S}

\* No pass is modelled: the loop over the tenants does not run.
PassIdle ==
    /\ u_active = {}
    /\ u_slot = {}
    /\ pass_pc = "off"
    /\ pass_list = <<>>
    /\ pass_i = 1
    /\ pass_done = {}
    /\ pass_err = {}
    /\ missed = {}

\* autopub:toggle of tenant t
toggle_active(t) ==
    /\ u_active' = IF t \in u_active THEN u_active \ {t} ELSE u_active \cup {t}
    /\ UNCHANGED <<u_slot, pass_pc, pass_list, pass_i, pass_done, pass_err, missed>>
    /\ UNCHANGED <<policy_vars, time_vars, queue_vars, posts_used, loop_vars, ghost_vars,
                   calc_vars, step_vars, rem_vars>>

\* run_auto_publisher wakes up and _process_auto_publish reads
\* get_active_settings; if that raises, the except clause of
\* run_auto_publisher logs it and the loop sleeps.
PassStart ==
    /\ pass_pc = "sleep"
    /\ pass_done' = {}
    /\ pass_err' = {}
    /\ pass_i' = 1
    /\ \E raised \in BOOLEAN :
        IF raised
        THEN /\ pass_list' = <<>>
             /\ pass_pc' = "sleeping"
        ELSE /\ pass_list' \in RowOrders(u_active)
             /\ pass_pc' = "for"
    /\ UNCHANGED <<u_active, u_slot, missed>>
    /\ UNCHANGED <<policy_vars, time_vars, queue_vars, posts_used, loop_vars, ghost_vars,
                   calc_vars, step_vars, rem_vars>>

\* What `await _process_user_auto_publish(bot, settings)` can do at a slot:
\* return at once, raise, or wait inside a call of the publish, notify or
\* generation interface.
TickOutcomes == {"for", "raised", "call"}

\* `for settings in active_settings`: the tick of the next tenant begins; a
\* tenant with no slot at this minute returns at `if not is_slot`.
PassTenant ==
    /\ pass_pc = "for"
    /\ pass_i <= Len(pass_list)
    /\ pass_done' = pass_done \cup {pass_list[pass_i]}
    /\ IF pass_list[pass_i] \in u_slot
       THEN \E outcome \in TickOutcomes : pass_pc' = outcome
       ELSE pass_pc' = "for"
    /\ pass_i' = IF pass_pc' = "for" THEN pass_i + 1 ELSE pass_i
    /\ pass_err' = IF pass_pc' = "raised" THEN pass_err \cup {pass_list[pass_i]}
                   ELSE pass_err
    /\ UNCHANGED <<u_active, u_slot, pass_list, missed>>
    /\ UNCHANGED <<policy_vars, time_vars, queue_vars, posts_used, loop_vars, ghost_vars,
                   calc_vars, step_vars, rem_vars>>

\* The awaited external call of the tick is over: it returned or it raised.
PassCallEnds ==
    /\ pass_pc = "call"
    /\ \E raised \in BOOLEAN :
        IF raised
        THEN /\ pass_pc' = "raised"
             /\ pass_err' = pass_err \cup {pass_list[pass_i]}
             /\ UNCHANGED pass_i
        ELSE /\ pass_pc' = "for"
             /\ pass_i' = pass_i + 1
             /\ UNCHANGED pass_err
    /\ UNCHANGED <<u_active, u_slot, pass_list, pass_done, missed>>
    /\ UNCHANGED <<policy_vars, time_vars, queue_vars, posts_used, loop_vars, ghost_vars,
                   calc_vars, step_vars, rem_vars>>

\* Mutant: the error of a tenant leaves _process_auto_publish; the except
\* clause of run_auto_publisher logs it and the loop sleeps.
PassRaised_Propagates ==
    /\ pass_pc = "raised"
    /\ pass_pc' = "sleeping"
    /\ UNCHANGED <<u_active, u_slot, pass_list, pass_i, pass_done, pass_err, missed>>
    /\ UNCHANGED <<policy_vars, time_vars, queue_vars, posts_used, loop_vars, ghost_vars,
                   calc_vars, step_vars, rem_vars>>

\* `except Exception` inside the for loop of _process_auto_publish: the error
\* is logged and the loop goes on with the next tenant.
PassRaised ==
    /\ pass_pc = "raised"
    /\ pass_pc' = "for"
    /\ pass_i' = pass_i + 1
    /\ UNCHANGED <<u_active, u_slot, pass_list, pass_done, pass_err, missed>>
    /\ UNCHANGED <<policy_vars, time_vars, queue_vars, posts_used, loop_vars, ghost_vars,
                   calc_vars, step_vars, rem_vars>>

\* The for loop is over: _send_review_reminders (its error, if any, is logged
\* by run_auto_publisher), then asyncio.sleep(CHECK_INTERVAL).
PassSleep ==
    /\ pass_pc = "for"
    /\ pass_i > Len(pass_list)
    /\ pass_pc' = "sleeping"
    /\ UNCHANGED <<u_active, u_slot, pass_list, pass_i, pass_done, pass_err, missed>>
    /\ UNCHANGED <<policy_vars, time_vars, queue_vars, posts_used, loop_vars, ghost_vars,
                   calc_vars, step_vars, rem_vars>>

\* The tenants of this pass whose tick has not begun.
Waiting == {pass_list[k] : k \in (pass_i + 1)..Len(pass_list)}

\* The clock shows the next minute.  A sleeping loop wakes up (the loop wakes
\* once in every minute unless a tick keeps it); a loop that waits inside a
\* tenant's external call goes on waiting, and the tenants behind that tenant
\* whose slot was at the minute that ended have lost it.
MinuteEnds ==
    /\ pass_pc \in {"sleeping", "call"}
    /\ u_slot' \in SUBSET Tenants
    /\ pass_pc' = IF pass_pc = "sleeping" THEN "sleep" ELSE pass_pc
    /\ missed' = IF pass_pc = "call" THEN missed \cup (Waiting \cap u_slot \cap u_active)
                 ELSE missed
    /\ UNCHANGED <<u_active, pass_list, pass_i, pass_done, pass_err>>
    /\ UNCHANGED <<policy_vars, time_vars, queue_vars, posts_used, loop_vars, ghost_vars,
                   calc_vars, step_vars, rem_vars>>

\* One step of the pass of run_auto_publisher.
Pass ==
    \/ PassStart
    \/ PassTenant
    \/ PassCallEnds
    \/ PassRaised
    \/ PassSleep

\* ----------------------- the escalator's pass over the items of all tenants
\* The tenant has no item in review.
NoReview == [status |-> "none", rem |-> 0, lrem |-> Null]

\* No pass of the escalator over several tenants is modelled.
RemIdle ==
    /\ rv_rows = [t \in Tenants |-> NoReview]
    /\ rv_pc = "off"
    /\ review_items = <<>>
    /\ unvisited = {}

tenant_vars == <<policy_vars, time_vars, queue_vars, posts_used, loop_vars, ghost_vars,
                 calc_vars, step_vars, pass_vars>>

\* A tick of tenant t with moderation = review: set_review on its next
\* ready item (the review gate lets no tick through while an item is in
\* review).
SendForReview(t) ==
    /\ rv_rows[t].status # "review"
    /\ rv_rows' = [rv_rows EXCEPT ![t] = [status |-> "review", rem |-> 0, lrem |-> 0]]
    /\ UNCHANGED <<rv_pc, review_items, unvisited, tenant_vars>>

\* Tenant t presses a review button: the item leaves the review status.
ReviewAnswered(t) ==
    /\ rv_rows[t].status = "review"
    /\ rv_rows' = [rv_rows EXCEPT ![t].status = "answered"]
    /\ UNCHANGED <<rv_pc, review_items, unvisited, tenant_vars>>

\* The rows of the tenants in order, as get_all_review_items read them.
ReviewSnapshot(order) ==
    [k \in 1..Len(order) |->
        [t |-> order[k], rem |-> rv_rows[order[k]].rem, lrem |-> rv_rows[order[k]].lrem]]

\* _send_review_reminders: get_all_review_items; if it raises, the function
\* returns and the loop sleeps.
RemStart ==
    /\ rv_pc = "sleep"
    /\ unvisited' = {}
    /\ \E raised \in BOOLEAN :
        IF raised
        THEN /\ review_items' = <<>>
             /\ rv_pc' = "sleeping"
        ELSE /\ review_items' \in
                    {ReviewSnapshot(order) :
                        order \in RowOrders({t \in Tenants : rv_rows[t].status = "review"})}
             /\ rv_pc' = "for"
    /\ UNCHANGED <<rv_rows, tenant_vars>>

\* The reminder of a row is due: REVIEW_REMINDER_INTERVAL has passed since
\* last_reminder_at.
ReminderDue(item) == item.lrem # Null /\ item.lrem >= REVIEW_REMINDER_INTERVAL

\* What the round of a row with a due reminder can do: the post is not found,
\* the message is not delivered, or it is delivered and counted.
ReminderOutcomes == {"no_post", "undelivered", "reminded"}

\* _send_review_reminders: one round of `for item in review_items` that ends
\* by `continue` or at the end of the loop body
RemItem ==
    /\ rv_pc = "for"
    /\ review_items # <<>>
    /\ LET item == Head(review_items)
       IN  IF SkipDue(item.rem)
           THEN rv_rows' = [rv_rows EXCEPT ![item.t].status = "skipped"]
           ELSE IF ~ReminderDue(item)
           THEN UNCHANGED rv_rows
           ELSE \E outcome \in ReminderOutcomes :
                IF outcome = "reminded"
                THEN rv_rows' = [rv_rows EXCEPT ![item.t].rem = @ + 1, ![item.t].lrem = 0]
                ELSE UNCHANGED rv_rows
    /\ review_items' = Tail(review_items)
    /\ UNCHANGED <<rv_pc, unvisited, tenant_vars>>

\* _send_review_reminders: update_status (auto-skip) or get_post (reminder)
\* raises in the round of a row; neither call is inside a try, so the error
\* leaves the for loop and the function, the except clause of
\* run_auto_publisher logs it and the loop sleeps.
RemItemRaised ==
    /\ rv_pc = "for"
    /\ review_items # <<>>
    /\ SkipDue(Head(review_items).rem) \/ ReminderDue(Head(review_items))
    /\ unvisited' = {review_items[k].t : k \in 2..Len(review_items)}
    /\ review_items' = <<>>
    /\ rv_pc' = "sleeping"
    /\ UNCHANGED <<rv_rows, tenant_vars>>

\* The for loop is over: asyncio.sleep(CHECK_INTERVAL).
RemSleep ==
    /\ rv_pc = "for"
    /\ review_items = <<>>
    /\ rv_pc' = "sleeping"
    /\ UNCHANGED <<rv_rows, review_items, unvisited, tenant_vars>>

\* The sleep is over, and the pass of the scheduler before the next call of
\* _send_review_reminders: a minute has passed, or REVIEW_REMINDER_INTERVAL.
RemWake ==
    /\ rv_pc = "sleeping"
    /\ rv_pc' = "sleep"
    /\ \E d \in {1, REVIEW_REMINDER_INTERVAL} :
        rv_rows' = [t \in Tenants |->
                        [rv_rows[t] EXCEPT !.lrem = Aged(@, d, REVIEW_REMINDER_INTERVAL)]]
    /\ UNCHANGED <<review_items, unvisited, tenant_vars>>

\* One step of the pass of _send_review_reminders.
Reminders ==
    \/ RemStart
    \/ RemItem
    \/ RemItemRaised
    \/ RemSleep
    \/ RemWake

CalcIdle ==
    /\ c_count = 0
    /\ c_out = <<>>
    /\ c_pc = "idle"
    /\ n_out = Null

InitQueue ==
    /\ schedule = NoSchedule
    /\ now = 0
    /\ in_minute = TRUE
    /\ CalcIdle
    /\ HandlersIdle
    /\ RemIdle
    /\ PassIdle
    /\ QueueEmpty
    /\ PolicyOff
    /\ LoopsStart({})

NextQueue ==
    \/ add_topic_start
    \/ \E id \in Ids : insert_topic(id)
    \/ process_add_topic
    \/ \E id \in Ids : confirm_delete(id)
    \/ generate_plan_execute
    \/ on_times_done
    \/ toggle_auto_publish
    \/ toggle_moderation
    \/ toggle_on_empty
    \/ NextTick

SpecQueue == InitQueue /\ [][NextQueue]_vars

\* ------------------------------------------------- the tenant and one loop
EmptyQueue == [i \in Ids |-> NoRow]

\* The queues generate_plan_execute leaves at instant 0 under schedule sched.
PlannedQueues(sched) ==
    UNION {{generate_content_plan(EmptyQueue, 1, sched, plan_schedule_times(sched, 0),
                                  m, succ) : succ \in (SUBSET (1..m)) \ {{}}} :
           m \in 1..MaxItems}

\* The queue process_add_topic (cplan:add_topic) leaves at instant 0.
TopicAdded(qq, sched) ==
    LET times == calculate_schedule_times(sched, get_active_queue_count(qq) + 1, 0)
    IN  add_item(qq, Cardinality(ActiveIds(qq)) + 1, times[Len(times)], "ready")

\* The queues of a tenant who has set a schedule, generated a plan and
\* perhaps added a topic of their own.
SetupQueues(sched) ==
    PlannedQueues(sched) \cup
    {TopicAdded(qq, sched) : qq \in {pq \in PlannedQueues(sched) :
        /\ get_active_queue_count(pq) < max_queue_size
        /\ get_active_queue_count(pq) < MaxItems}}

\* The tenant has been through on_times_done, generate_plan_execute, perhaps
\* process_add_topic and the settings, and has pressed autopub:toggle; the
\* loops in Started start.
InitTenant(Started) ==
    /\ schedule \in ScheduleChoices
    /\ now = 0
    /\ in_minute = TRUE
    /\ CalcIdle
    /\ HandlersIdle
    /\ RemIdle
    /\ PassIdle
    /\ q \in SetupQueues(schedule)
    /\ next_id = Cardinality(ActiveIds(q)) + 1
    /\ fsm = FsmClear
    /\ posts = create_posts([i \in Ids |-> "none"], 1, next_id)
    /\ prompted = {}
    /\ sends = [i \in Ids |-> 0]
    /\ failed_here = FALSE
    /\ note = [p \in Procs |-> NoNote]
    /\ acted_here = FALSE
    /\ is_active = TRUE
    /\ moderation \in {"review", "auto"}
    /\ on_empty \in {"pause", "auto_generate"}
    /\ is_generating = FALSE
    /\ lp = Null
    /\ posts_used = 0
    /\ LoopsStart(Started)

Init == InitTenant({1})

Next ==
    \/ \E id \in Ids : review_publish(id)
    \/ \E id \in Ids : review_skip(id)
    \/ \E id \in Ids : review_delete(id)
    \/ Loop(1)
    \/ AdvanceClock
    \/ NextTick

Spec == Init /\ [][Next]_vars

\* ------------------------------------------ the loop alone, running for ever
NextLoop ==
    \/ Loop(1)
    \/ AdvanceClock
    \/ NextTick

\* run_auto_publisher never stops, and the clock does not stop either.
SpecFair == Init /\ [][NextLoop]_vars /\ WF_vars(Loop(1)) /\ WF_vars(AdvanceClock)

\* ------------------------------------------------------- two loops at once
InitOverlap == InitTenant(Procs)

NextOverlap ==
    \/ \E p \in Procs : Loop(p)
    \/ AdvanceClock
    \/ NextTick

SpecOverlap == InitOverlap /\ [][NextOverlap]_vars

\* ------------------------------------- the loop and a tenant who adds topics
NextAppend ==
    \/ add_topic_start
    \/ process_add_topic
    \/ Loop(1)
    \/ AdvanceClock
    \/ NextTick

SpecAppend == Init /\ [][NextAppend]_vars

\* ------------------------------- the loop and a tenant who deletes items
NextStale ==
    \/ \E id \in Ids : confirm_delete(id)
    \/ Loop(1)
    \/ AdvanceClock
    \/ NextTick

SpecStale == Init /\ [][NextStale]_vars

\* -------------------------------------- the tenant's handlers, step by step
\* The tenant of InitTenant with no loop running.
InitHandlers == InitTenant({})

\* ------------------------------------ insert_after, statement by statement
NextInsert ==
    \/ \E id \in Ids : insert_topic(id)
    \/ \E h \in Tasks : insert_after_shift(h)
    \/ \E h \in Tasks : insert_after_insert(h)
    \/ \E h \in Tasks : get_queue(h)

SpecInsert == InitHandlers /\ [][NextInsert]_vars

\* ------------------------------------------- two presses of the delete button
NextDelete ==
    \/ \E h \in Tasks, id \in Ids : confirm_delete_get(h, id)
    \/ \E h \in Tasks : confirm_delete_do(h)

SpecDelete == InitHandlers /\ [][NextDelete]_vars

\* ------------------------- the loop, waking more than once in one minute
NextRestart ==
    \/ Loop(1)
    \/ Restart
    \/ AdvanceClock
    \/ NextTick

SpecRestart == Init /\ [][NextRestart]_vars

\* ------------------------- the escalator's pass over the tenants' items
\* No tenant has an item in review yet; the loop is about to call
\* _send_review_reminders.
InitReminders ==
    /\ schedule = NoSchedule
    /\ now = 0
    /\ in_minute = TRUE
    /\ CalcIdle
    /\ HandlersIdle
    /\ PassIdle
    /\ QueueEmpty
    /\ PolicyOff
    /\ LoopsStart({})
    /\ rv_rows = [t \in Tenants |-> NoReview]
    /\ rv_pc = "sleep"
    /\ review_items = <<>>
    /\ unvisited = {}

NextReminders ==
    \/ \E t \in Tenants : SendForReview(t)
    \/ \E t \in Tenants : ReviewAnswered(t)
    \/ Reminders

SpecReminders == InitReminders /\ [][NextReminders]_vars

\* ----------------------------------- the pass of the loop over the tenants
\* Some tenants have switched auto-publication on; the loop is about to make
\* its first pass.
InitPass ==
    /\ schedule = NoSchedule
    /\ now = 0
    /\ in_minute = TRUE
    /\ CalcIdle
    /\ HandlersIdle
    /\ RemIdle
    /\ QueueEmpty
    /\ PolicyOff
    /\ LoopsStart({})
    /\ u_active \in SUBSET Tenants
    /\ u_slot \in SUBSET Tenants
    /\ pass_pc = "sleep"
    /\ pass_list = <<>>
    /\ pass_i = 1
    /\ pass_done = {}
    /\ pass_err = {}
    /\ missed = {}

NextPass ==
    \/ \E t \in Tenants : toggle_active(t)
    \/ Pass
    \/ MinuteEnds

SpecPass == InitPass /\ [][NextPass]_vars

\* run_auto_publisher never stops, an awaited call ends, the clock goes on.
SpecPassFair == SpecPass /\ WF_vars(Pass) /\ WF_vars(MinuteEnds)

\* ------------------------------------------------ claims on the scheduler
\* C2: in every reachable state of the tenant's queue, also after the
\* scheduler, the escalator or a review button has moved an item out of the
\* active set, the positions of the pending and ready items form 1..N with
\* no gap.
C2_DenseInEveryState ==
    \A k \in 1..get_active_queue_count(q) : \E i \in ActiveIds(q) : q[i].position = k

InReview == {i \in Ids : q[i].status = "review"}

\* the step of loop p dispatches an item: it sends it for review or calls
\* publish_post for it
Dispatches(p) ==
    \/ loop_pc[p] = "review" /\ loop_pc'[p] = "mark"
    \/ loop_pc[p] = "publish" /\ loop_pc'[p] \in {"record", "failed"}

\* C3: the scheduler never dispatches an item (neither publishes it nor sends
\* it for review) while an item of the tenant is in review, and at most one
\* item of the tenant is in review at any time.
C3_ReviewGate ==
    /\ [](Cardinality(InReview) <= 1)
    /\ [][\A p \in Procs : Dispatches(p) => InReview = {}]_vars

\* a tick has been turned away by the review gate while an item was due
C3_Witness ==
    /\ is_active
    /\ loop_pc[1] = "esc"
    /\ processing_users = {}
    /\ is_slot_now(schedule)
    /\ ~TooSoon(lp)
    /\ InReview # {}
    /\ ReadyDue(q) # {}

\* the step of loop p is the escalator's auto-skip of item i
AutoSkips(p, i) ==
    /\ loop_pc[p] = "esc_items"
    /\ e_todo'[p] # e_todo[p]
    /\ q[i].status = "review"
    /\ q'[i].status = "skipped"

\* C5: the escalator moves an item left in review to skipped exactly after
\* MAX_REVIEW_REMINDERS reminders were sent for it: never after fewer, and a
\* further reminder is never sent.
C5_SkipAfterMaxReminders ==
    /\ [](\A i \in Ids : sends[i] <= MAX_REVIEW_REMINDERS)
    /\ [][\A p \in Procs, i \in Ids :
            AutoSkips(p, i) => sends[i] = MAX_REVIEW_REMINDERS]_vars

\* an item was skipped after its MAX_REVIEW_REMINDERS reminders, no button
\* having been pressed for it
C5_Witness ==
    \E i \in Ids :
        /\ q[i].status = "skipped"
        /\ sends[i] = MAX_REVIEW_REMINDERS
        /\ posts[i] = "draft"

\* the positions of a loop between the concurrency guard and the finally
\* clause of _process_user_auto_publish
TickPcs == {"gate", "fetch", "empty", "generating", "review", "publish", "failed",
            "raised", "record", "mark"}
InTick == {p \in Procs : loop_pc[p] \in TickPcs}

\* the step of loop p is its pass through the concurrency guard while another
\* loop is inside its tick
EntersDuringTick(p) ==
    /\ loop_pc[p] = "guard"
    /\ loop_pc'[p] # "guard"
    /\ InTick \ {p} # {}

\* C4: of two ticks of the tenant that overlap in time exactly one does the
\* dispatch logic; the other returns at the concurrency guard and reads and
\* changes nothing of the queue and the policy.
C4_OneTickAtATime ==
    /\ [](Cardinality(InTick) <= 1)
    /\ [][\A p \in Procs :
            EntersDuringTick(p) =>
                /\ loop_pc'[p] = "esc"
                /\ UNCHANGED <<policy_vars, queue_vars, posts_used, processing_users,
                               t_item, e_todo, ghost_vars>>]_vars

\* loop 1 is inside its tick, and loop 2, whose settings pass the slot check
\* and the throttle, has been turned away
C4_Witness ==
    /\ loop_pc[1] = "gate"
    /\ loop_pc[2] = "esc"
    /\ is_active
    /\ is_slot_now(t_set[2].schedule)
    /\ ~TooSoon(t_set[2].lp)
    /\ ~TooSoon(lp)
    /\ InReview = {}
    /\ ~t_set[2].is_generating

\* C6: every item that enters review leaves it in the end, though the tenant
\* never answers, whatever its post reference and whatever becomes of the
\* notify calls, the escalator running and the clock moving.
C6_ReviewEnds ==
    \A i \in Ids : (q[i].status = "review") ~> (q[i].status # "review")

\* C7: dispatch goes by ascending position: when the scheduler dispatches an
\* item, no other item of the tenant with status ready has a lower position.
C7_DispatchByPosition ==
    [][\A p \in Procs :
        Dispatches(p) =>
            \A j \in Ids : q[j].status = "ready" =>
                q[j].position >= q[t_item[p].id].position]_vars

\* A row of the tenant is deleted by this step: in Spec only review_delete
\* deletes, and it calls recalculate_scheduled_at as the schedule has slots.
DeletesAndRecalculates == \E id \in Ids : Exists(q, id) /\ ~Exists(q', id)

\* C13: after recalculate_scheduled_at the i-th active item in ascending
\* position order holds the i-th of the n timestamps calculated for the n
\* active items, scheduled_at is strictly increasing in position order over
\* the active items, and the items of other statuses keep their scheduled_at.
C13_RecalculateAssignsInOrder ==
    [][DeletesAndRecalculates =>
        LET n == get_active_queue_count(q')
            times == calculate_schedule_times(schedule, n, now)
        IN  /\ Len(times) = n
            /\ \E ord \in ActiveOrders(q') :
                    \A i \in 1..n : q'[ord[i]].sched = times[i]
            /\ \A i, j \in ActiveIds(q') :
                    q'[i].position < q'[j].position => q'[i].sched < q'[j].sched
            /\ \A i \in Ids :
                    (Exists(q', i) /\ ~IsActive(q'[i])) => q'[i].sched = q[i].sched]_vars

\* C13 witness: a row has been deleted and two active rows are left, the
\* one of the lower position with the earlier scheduled_at.
C13_Witness ==
    /\ \E id \in 1..(next_id - 1) : ~Exists(q, id)
    /\ \E i, j \in ActiveIds(q) :
            /\ q[i].position < q[j].position
            /\ q[i].sched # Null
            /\ q[i].sched < q[j].sched

\* C18: with moderation auto, when publish_post returns a failure the item
\* stays ready, the tick still updates last_processed_at before it ends, and
\* no item is dispatched again in the tick of the clock in which the failure
\* occurred, that is before the next slot match.
C18_FailedPublishKeepsItem ==
    [][\A p \in Procs :
        /\ (loop_pc[p] = "failed" /\ loop_pc'[p] # "failed")
                => /\ loop_pc'[p] = "mark"
                   /\ q'[t_item[p].id].status = "ready"
        /\ (loop_pc[p] = "mark" /\ loop_pc'[p] # "mark") => lp' = 0
        /\ Dispatches(p) => ~failed_here]_vars

\* C18 witness: a publication failed in this tick of the clock, the tick has
\* ended with last_processed_at updated, and the item is still ready and due.
C18_Witness ==
    /\ failed_here
    /\ lp = 0
    /\ loop_pc[1] = "sleeping"
    /\ moderation = "auto"
    /\ ReadyDue(q) # {}

\* Where a tick stands once it has passed the slot match and the gates and
\* has reached get_next_ready.
FetchedPcs == TickPcs \ {"gate"}

\* C19: every tick that reaches the fetch step updates last_processed_at
\* before it ends, whatever branch it takes and whatever the dispatch step
\* does, an error raised inside it included.
C19_TickAlwaysMarks ==
    [][\A p \in Procs :
        (loop_pc[p] \in FetchedPcs /\ loop_pc'[p] \notin TickPcs) => lp' = 0]_vars

\* C20: when the item a tick has fetched is deleted by the tenant before the
\* tick dispatches it, the tick does nothing with it: publish_post is not
\* called, no review message is delivered, no usage counter changes.
C20_StaleItemIsNoOp ==
    [][\A p \in Procs :
        (loop_pc[p] \in {"review", "publish"} /\ ~Exists(q, t_item[p].id))
            => /\ ~(loop_pc[p] = "publish" /\ loop_pc'[p] \in PublishOutcomes)
               /\ prompted' = prompted
               /\ posts_used' = posts_used]_vars

\* The statuses an item is not to leave.
Terminal == {"published", "skipped", "cancelled"}

\* C21: published, skipped and cancelled are terminal: once an item has one
\* of these statuses, no tick of the scheduler, no pass of the escalator and
\* no review button, those of older messages included, changes its status to
\* a different value.
C21_TerminalIsFinal ==
    [][\A i \in Ids :
        (q[i].status \in Terminal /\ Exists(q', i)) => q'[i].status = q[i].status]_vars

\* The pass over the tenants ends in this step.
PassOver == pass_pc \in {"for", "raised", "call"} /\ pass_pc' \in {"sleeping", "sleep"}

\* C22: in one pass over the active tenants an error raised in the tick of
\* one tenant keeps no other tenant of the pass from having its tick, and
\* the loop goes on to further passes.
C22_TenantErrorIsolated ==
    /\ [][PassOver => pass_done' = {pass_list[k] : k \in 1..Len(pass_list)}]_vars
    /\ [](pass_err # {} => <>(pass_pc = "sleep"))

\* C22 witness: the first of two tenants raised, the second had its tick,
\* and the loop sleeps.
C22_Witness ==
    /\ pass_pc = "sleeping"
    /\ Len(pass_list) = 2
    /\ pass_list[1] \in pass_err
    /\ pass_list[2] \in pass_done

\* C23: a long external call in the tick of one tenant keeps no other tenant
\* waiting: no tenant's slot minute ends, while another tenant's tick waits
\* in such a call, before its own tick of that wake-up has begun.
C23_NoSlotMissed == missed = {}

\* C24: is_generating is released on every way out of an auto-generation
\* cycle: the flag is set only while _auto_generate_batch waits for the
\* content plan, and it is false when the function is left, whether the plan
\* came with items, came with nothing or the producer raised.
C24_GeneratingReleased ==
    /\ [](is_generating => \E p \in Procs : loop_pc[p] = "generating")
    /\ [][\A p \in Procs :
            (loop_pc[p] = "generating" /\ loop_pc'[p] # "generating")
                => ~is_generating']_vars

\* C24 witness: the content-plan producer raised and the flag is down.
C24_Witness ==
    /\ loop_pc[1] = "mark"
    /\ note[1].found = "gen_raised"
    /\ ~is_generating

\* C25: when a slot fires and the fetch returns no item, with on_empty =
\* pause the tick switches the policy off and sends the tenant the notice; it
\* creates, deletes and changes no queue item, and while the policy is off a
\* wake-up of the loop starts no tick for the tenant.
C25_PauseOnEmpty ==
    [][\A p \in Procs :
        /\ (loop_pc[p] = "empty" /\ loop_pc'[p] # "empty" /\ t_set[p].on_empty = "pause")
                => /\ ~is_active'
                   /\ note'[p].told = "queue_empty"
                   /\ loop_pc'[p] = "mark"
                   /\ q' = q
        /\ (note[p].told = "queue_empty" /\ loop_pc'[p] # loop_pc[p])
                => /\ loop_pc'[p] \notin TickPcs
                   /\ q' = q
        /\ (loop_pc[p] = "sleep" /\ loop_pc'[p] # "sleep" /\ ~is_active)
                => loop_pc'[p] \notin TickPcs \cup {"guard"}]_vars

\* C25 witness: the tick found nothing to fetch, has switched the policy off
\* and has told the tenant that the queue is empty.
C25_Witness ==
    /\ loop_pc[1] = "mark"
    /\ note[1].told = "queue_empty"
    /\ t_set[1].on_empty = "pause"
    /\ ~is_active

\* What a tick notes when it has called the content-plan producer.
Generated == {"saved", "nothing", "gen_raised"}

\* C26: when a slot fires and the fetch returns no item, with on_empty =
\* auto_generate the tick calls the content-plan producer and then ends
\* without dispatching anything: an item of that plan is dispatched by a
\* later tick only.
C26_GeneratedWaitForLaterTick ==
    [][\A p \in Procs :
        /\ (loop_pc[p] = "empty" /\ loop_pc'[p] # "empty")
                => loop_pc'[p] \in {"generating", "mark"}
        /\ (loop_pc[p] = "generating" /\ loop_pc'[p] # "generating")
                => /\ loop_pc'[p] = "mark"
                   /\ note'[p].found \in Generated
        /\ (note[p].found \in Generated /\ loop_pc'[p] # loop_pc[p])
                => loop_pc'[p] \notin TickPcs
        /\ Dispatches(p) => note[p].found \notin Generated]_vars

\* C26 witness: the tick has generated a plan whose items are in the queue,
\* and it is about to end.
C26_Witness ==
    /\ loop_pc[1] = "mark"
    /\ note[1].found = "saved"
    /\ t_set[1].on_empty = "auto_generate"
    /\ \E i \in Ids : q[i].status = "ready"

\* What a tick notes when the tenant's resources are used up.
Exhausted == {"no_tokens", "post_limit"}

C28_FailedGenerationKeepsPolicy ==
    [][\A p \in Procs :
        /\ (loop_pc[p] = "generating" /\ note'[p].found \in {"gen_raised", "nothing"})
                => /\ q' = q
                   /\ on_empty' = on_empty
                   /\ is_active' = is_active
        /\ (note[p].found \in {"gen_raised", "nothing"} /\ loop_pc'[p] # loop_pc[p])
                => /\ q' = q
                   /\ on_empty' = on_empty
                   /\ is_active' = is_active
        /\ (loop_pc[p] = "sleep" /\ loop_pc'[p] # "sleep" /\ is_active)
                => loop_pc'[p] = "guard"]_vars

\* C28 witness: the producer raised; the policy is active with on_empty =
\* auto_generate and the queue holds no active item.
C28_Witness ==
    /\ loop_pc[1] = "mark"
    /\ note[1].found = "gen_raised"
    /\ is_active
    /\ on_empty = "auto_generate"
    /\ ReadyDue(q) = {}

\* The tick p goes on from the fetch to the dispatch of an item or to the
\* handling of the empty queue.
Acts(p) == loop_pc[p] = "fetch" /\ loop_pc'[p] \in {"empty", "review", "publish"}

\* C30: the throttle prevents repeat triggers: a tick that comes less than
\* MIN_PROCESS_INTERVAL after last_processed_at dispatches nothing and
\* handles no empty queue, so the tenant gets no two dispatches or
\* empty-queue handlings in one slot minute, even if the loop wakes up more
\* than once in that minute.
C30_ThrottleStopsRepeat ==
    [][\A p \in Procs :
        /\ (/\ loop_pc[p] = "guard"
            /\ loop_pc'[p] # "guard"
            /\ t_set[p].lp # Null
            /\ t_set[p].lp < MIN_PROCESS_INTERVAL)
                => loop_pc'[p] = "esc"
        /\ Acts(p) => ~acted_here]_vars

\* The tenant-local weekday and HH:MM of the clock are those of a slot of sched.
SlotFires(sched) ==
    /\ in_minute
    /\ \E k \in 1..Len(sched.slots) :
          /\ sched.slots[k].day = weekday(date(astimezone(now, sched.tz)))
          /\ sched.slots[k].time = time_of_day(astimezone(now, sched.tz))

\* C31: the scheduler dispatches an item or applies the empty-queue policy
\* only in a tick whose tenant-local weekday and HH:MM are exactly those of a
\* configured slot; every other tick, and every tick under a schedule with no
\* slots, leaves the queue, the policy flags and last_processed_at as they were.
C31_OnlyAtSlot ==
    [][\A p \in Procs :
        /\ Acts(p) => SlotFires(schedule)
        /\ (loop_pc[p] = "guard" /\ loop_pc'[p] # "guard" /\ ~SlotFires(t_set[p].schedule))
                => /\ loop_pc'[p] = "esc"
                   /\ UNCHANGED <<q, next_id, posts, policy_vars, posts_used>>]_vars

\* C31 witness: a tick has been turned away at the slot check while a ready
\* item was due, and nothing has been marked.
C31_Witness ==
    /\ is_active
    /\ loop_pc[1] = "esc"
    /\ ~SlotFires(schedule)
    /\ ReadyDue(q) # {}
    /\ lp = Null

\* C32: the processing marker is released on every way out of a tick (a
\* return at a gate, the normal end, an error raised inside): whenever no
\* tick of the tenant runs the tenant is not in _processing_users, so a tick
\* is turned away at the guard only while another tick of the tenant runs.
C32_MarkerReleased ==
    /\ [](InTick = {} => Tenant \notin processing_users)
    /\ [][\A p \in Procs :
            (/\ loop_pc[p] = "guard"
             /\ loop_pc'[p] # "guard"
             /\ Tenant \in processing_users)
                => InTick \ {p} # {}]_vars

\* C32 witness: a tick has fetched at this minute and has ended by an error
\* (last_processed_at was never written); no tick runs and the marker is gone.
C32_Witness ==
    /\ acted_here
    /\ lp = Null
    /\ InTick = {}
    /\ \A p \in Procs : loop_pc[p] # "guard"
    /\ processing_users = {}

\* C33: with moderation = auto a successful publish sets the dispatched item
\* to published and advances the usage counter by exactly one; no other step
\* of a tick advances the counter; with moderation = review the tick sets the
\* item to review, and neither the posts nor the counter change.
C33_PublishCountsOnce ==
    [][\A p \in Procs :
        LET id == t_item[p].id
            others == \A i \in Ids \ {id} : q'[i] = q[i]
        IN  /\ (loop_pc[p] = "record" /\ loop_pc'[p] # "record")
                => /\ t_set[p].moderation = "auto"
                   /\ q[id].status = "ready"
                   /\ q'[id].status = "published"
                   /\ others
                   /\ posts_used' = posts_used + 1
            /\ (loop_pc[p] \in (TickPcs \cup {"guard"}) \ {"record"}
                    /\ loop_pc'[p] # loop_pc[p])
                => posts_used' = posts_used
            /\ (loop_pc[p] = "review" /\ loop_pc'[p] # "review")
                => /\ t_set[p].moderation = "review"
                   /\ q'[id].status = "review"
                   /\ others
                   /\ posts' = posts]_vars

\* C33 witness: the tick of a tenant with moderation = auto has published its
\* item and stands before update_last_processed.
C33_Witness ==
    /\ loop_pc[1] = "mark"
    /\ t_set[1].moderation = "auto"
    /\ t_item[1] # NoItem
    /\ q[t_item[1].id].status = "published"
    /\ posts[t_item[1].id] = "published"
    /\ posts_used = 1

\* C34: in one pass of the escalator a failure in the round of one review
\* item (the status write or the post lookup) keeps no other review item,
\* of whatever tenant, from its round of that pass: when the pass is over,
\* the for loop has reached every row get_all_review_items returned.
C34_FailureKeepsNoItemWaiting == rv_pc = "sleeping" => unvisited = {}

\* C35: the empty-queue policy meets only a tenant with no ready item: a
\* tick that tells the tenant the queue is empty and switches the policy
\* off, or that begins to generate a new batch, finds no row with status
\* ready in the queue, whatever the scheduled_at of the rows.
C35_EmptyPolicyOnlyWithoutReady ==
    [][\A p \in Procs :
        (/\ loop_pc[p] = "empty"
         /\ \/ note'[p].told = "queue_empty"
            \/ loop_pc'[p] = "generating")
            => \A i \in Ids : q[i].status # "ready"]_vars

\* C36: the escalator auto-skips a review item no earlier than
\* REVIEW_REMINDER_INTERVAL after the last reminder sent for it.
C36_SkipSpacedFromLastReminder ==
    [][\A t \in Tenants :
        (/\ rv_pc = "for"
         /\ rv_rows[t].status = "review"
         /\ rv_rows'[t].status = "skipped")
            => /\ rv_rows[t].lrem # Null
               /\ rv_rows[t].lrem >= REVIEW_REMINDER_INTERVAL]_vars

\* C37: no item is published twice: every successful call of the publish
\* interface (the usage counter advances) is for an item whose status is
\* ready (scheduler) or review (review button) and which the step sets to
\* published.
C37_PublishOnlyReadyOrReview ==
    [][posts_used' = posts_used + 1
        => \E i \in Ids : /\ q[i].status \in {"ready", "review"}
                          /\ q'[i].status = "published"]_vars

\* C38: through the manual add paths (a topic added at the end, a topic
\* inserted after an item) the number of the tenant's active items never
\* exceeds max_queue_size: the handler of the entered topic adds a row only
\* when the queue stays within the limit.
C38_ManualAddWithinLimit ==
    [][(/\ fsm.state = "adding_topic"
        /\ fsm'.state = "none"
        /\ get_active_queue_count(q') > get_active_queue_count(q))
            => get_active_queue_count(q') <= max_queue_size]_vars

\* --------------------------------------------------- claims on the queue
\* Positions, by id, that are exactly 1..N: none twice, none missing.
DensePositions(f) == {f[i] : i \in DOMAIN f} = 1..Cardinality(DOMAIN f)

\* C17: insert_after is atomic: no listing of the queue shows a duplicate
\* or a missing active position, and no insert_after running beside another
\* leaves one behind.
C17_InsertAfterAtomic ==
    /\ DensePositions(seen)
    /\ (\A h \in Tasks : h_pc[h] = "idle") => DensePositions(ActivePositions(q))

\* The maximum position among the active items, 0 when there are none.
ActiveMax(qq) ==
    IF ActiveIds(qq) = {} THEN 0
    ELSE SetMax({qq[i].position : i \in ActiveIds(qq)})

\* C16: add_item gives the new item the position (maximum position among
\* the existing active items, 0 when none) + 1, whatever positions the items
\* in review, published or skipped hold.
C16_AppendAfterActiveMax ==
    [][(fsm.state = "adding_topic" /\ fsm.insert_after = Null /\ fsm' = FsmClear
            /\ process_add_topic)
        => q'[next_id].position = ActiveMax(q) + 1]_vars

\* The row without its scheduled_at, which recalculate_scheduled_at rewrites.
Unscheduled(row) == [row EXCEPT !.sched = Null]

\* C15: delete_item removes the row and leaves the remaining active items at
\* positions 1..N in the order they had; for an id that has no row it changes
\* nothing and ends normally.
C15_DeleteRenumbers ==
    [][\A h \in Tasks :
        (h_pc[h] = "delete" /\ h_pc'[h] = "idle") =>
            IF Exists(q, h_arg[h])
            THEN /\ ~Exists(q', h_arg[h])
                 /\ \A i \in Ids \ {h_arg[h]} : q'[i].status = q[i].status
                 /\ {q'[i].position : i \in ActiveIds(q')}
                        = 1..Cardinality(ActiveIds(q'))
                 /\ \A i, j \in ActiveIds(q') :
                        q[i].position < q[j].position => q'[i].position < q'[j].position
            ELSE \A i \in Ids : Unscheduled(q'[i]) = Unscheduled(q[i])]_vars

\* C15 witness: of three items at positions 1, 2, 3 the second has been
\* deleted, by one press or by two; the first and the third are at 1 and 2.
C15_Witness ==
    /\ next_id = 4
    /\ ~Exists(q, 2)
    /\ IsActive(q[1]) /\ q[1].position = 1
    /\ IsActive(q[3]) /\ q[3].position = 2
    /\ \A h \in Tasks : h_pc[h] = "idle"

\* A handler that ends with recalculate_scheduled_at takes this step.
Recalculates ==
    /\ UNCHANGED <<flag_vars, time_vars, next_id>>
    /\ \/ fsm' = FsmClear /\ on_times_done
       \/ /\ schedule.slots # <<>>
          /\ \E id \in Ids : Exists(q, id) /\ ~Exists(q', id) /\ confirm_delete(id)

ReviewButton == \E id \in Ids : review_publish(id) \/ review_skip(id) \/ review_delete(id)

\* C29: every manual action goes through the invariant-preserving paths:
\* when it is over the active positions are 1..N with no gap and the
\* scheduled_at of the active items are those of a fresh recalculation from
\* the current schedule.
C29_ManualActionsPreserve ==
    [][ReviewButton =>
        /\ DensePositions(ActivePositions(q'))
        /\ \E ord \in ActiveOrders(q') :
                recalculate_scheduled_at(q', ord, schedule', now') = q']_vars

\* C1: after any sequence of append, insert_after and delete operations the
\* positions of the active items (pending or ready) are exactly 1..N.
C1_PositionsDense ==
    {q[i].position : i \in ActiveIds(q)} = 1..Cardinality(ActiveIds(q))

\* ------------------------------------------------------------------ inputs
TzOffsets == {0, 1}
SlotSeqs == UNION {[1..n -> Slots] : n \in 0..MaxSlots}
Schedules == [slots : SlotSeqs, tz : TzOffsets]
WeekTicks == DaysPerWeek * TicksPerDay

\* --------------------------------------------- specification of the calculator
InitCalc ==
    /\ schedule \in Schedules
    /\ now \in 0..(WeekTicks - 1)
    /\ c_count \in 0..MaxCount
    /\ c_out = <<>>
    /\ c_pc = "input"
    /\ n_out = Null
    /\ HandlersIdle
    /\ RemIdle
    /\ PassIdle
    /\ in_minute = TRUE
    /\ QueueEmpty
    /\ PolicyOff
    /\ LoopsStart({})

CallCalculate ==
    /\ c_pc = "input"
    /\ c_out' = calculate_schedule_times(schedule, c_count, now)
    /\ c_pc' = "done"
    /\ UNCHANGED <<schedule, now, c_count, n_out, queue_vars, in_minute, flag_vars, posts_used,
                   loop_vars, ghost_vars, step_vars, pass_vars, rem_vars>>

CallNextSlot ==
    /\ c_pc = "input"
    /\ n_out' = get_next_slot_time(schedule, now)
    /\ c_pc' = "next"
    /\ UNCHANGED <<schedule, now, c_count, c_out, queue_vars, in_minute, flag_vars,
                   posts_used, loop_vars, ghost_vars, step_vars, pass_vars, rem_vars>>

NextCalc == CallCalculate \/ CallNextSlot

SpecCalc == InitCalc /\ [][NextCalc]_vars

\* ------------------------------------------------- claims on the calculator
\* Occurs(sched, t): some configured weekly slot falls on the instant t.
Occurs(sched, t) ==
    \E i \in 1..Len(sched.slots) :
        LET l == astimezone(t, sched.tz)
        IN  weekday(date(l)) = sched.slots[i].day /\ time_of_day(l) = sched.slots[i].time

\* The first n instants at or after t on which a slot occurs, ascending.
RECURSIVE EarliestFrom(_, _, _)
EarliestFrom(sched, t, n) ==
    IF n = 0 THEN <<>>
    ELSE IF Occurs(sched, t) THEN <<t>> \o EarliestFrom(sched, t + 1, n - 1)
    ELSE EarliestFrom(sched, t + 1, n)

\* C8: for non-empty slots the result is exactly the n earliest slot instants
\* strictly after now; no earlier occurrence is skipped for a later one.
C8_NEarliest ==
    (c_pc = "done" /\ schedule.slots # <<>>)
        => c_out = EarliestFrom(schedule, now + 1, c_count)

\* C9: the result has exactly n timestamps when slots is non-empty, and is
\* empty when slots is empty.
C9_ExactlyN ==
    c_pc = "done"
        => Len(c_out) = (IF schedule.slots = <<>> THEN 0 ELSE c_count)

\* C9 witness: one slot, already past today, and the call still returned
\* n >= 2 timestamps (the first week contributed nothing).
C9_Witness ==
    /\ c_pc = "done"
    /\ Len(schedule.slots) = 1
    /\ Occurs(schedule, now)
    /\ c_count >= 2
    /\ Len(c_out) = c_count

\* C10: every returned timestamp is strictly after now; an occurrence that
\* equals now is not returned.
C10_StrictlyAfterNow ==
    c_pc = "done" => \A i \in 1..Len(c_out) : c_out[i] > now

\* C10 witness: a slot occurs exactly at now, and the call returned the
\* occurrence of next week instead.
C10_Witness ==
    /\ c_pc = "done"
    /\ Occurs(schedule, now)
    /\ Len(schedule.slots) = 1
    /\ c_count >= 1
    /\ c_out[1] = now + WeekTicks

\* C11: the returned list is strictly increasing, so no two timestamps are
\* equal, also when slots holds the same (day, time) pair more than once.
C11_StrictlyIncreasing ==
    c_pc = "done" => \A i \in 1..(Len(c_out) - 1) : c_out[i] < c_out[i + 1]

\* C11 witness: the same (day, time) pair is configured twice and the call
\* returned at least two timestamps.
C11_Witness ==
    /\ c_pc = "done"
    /\ Len(schedule.slots) = 2
    /\ schedule.slots[1] = schedule.slots[2]
    /\ Len(c_out) >= 2

\* C12: get_next_slot_time returns the one timestamp that
\* calculate_schedule_times returns for count 1 at the same schedule and now,
\* and returns nothing when the schedule has no slots.
C12_NextSlotIsFirstTimestamp ==
    c_pc = "next"
        => IF schedule.slots = <<>> THEN n_out = Null
           ELSE calculate_schedule_times(schedule, 1, now) = <<n_out>>

\* C12 witness: a slot occurs at now itself and another one later in the
\* week; the call returned the later one.
C12_Witness ==
    /\ c_pc = "next"
    /\ Len(schedule.slots) = 2
    /\ Occurs(schedule, now)
    /\ n_out # Null
    /\ n_out < now + WeekTicks

====
